---- MODULE Spec2Model ----
(***************************************************************************)
(* Model of the webtask workflow compiler (src/compilers/workflow.js):     *)
(* the executors returned by compileFanout and compileSequence, driven by  *)
(* the callbacks of wreck.request, Async.map and Async.reduce (Spec), and  *)
(* the compile pipeline that produces them: compileScript, validateSchema, *)
(* createCompiler under Async.waterfall (SpecCompile).                     *)
(*                                                                         *)
(* Objects are records, header maps are functions from header name to      *)
(* value, query objects are sequences of <<key, value>> pairs in insertion *)
(* order, node indexes are 1-based (node i of the source is node i+1).     *)
(***************************************************************************)
EXTENDS Integers, Sequences, FiniteSets, TLC

\* Largest number of nodes of a workflow definition.
MaxNodes == 2

DEFAULT_TIMEOUT == 10000
USE_WILDCARD_DOMAIN == 3
USE_CUSTOM_DOMAIN == 2
USE_SHARED_DOMAIN == 1

VARIABLES
    sequence,   \* the validated workflow definition the executor closes over
    pc,         \* "idle" | "running" | "done" | "thrown"
    req,        \* the inbound request of the invocation
    wreck,      \* the HTTP client built by createWreck
    calls,      \* per node: the wreck.request call and its outcome
    results,    \* the results array of Async.map
    completed,  \* the completion counter of Async.map
    cbCalled,   \* the once() guard around the final callback
    memo,       \* the accumulator of Async.reduce
    res,        \* the server response
    log,        \* history: dispatch and outcome events in order
    previous,   \* history: the invocation before this one (request, calls, response)
    script,         \* options.script handed to compiler()
    cpc,            \* compile pipeline: "start" | "compiling" | "done" | "thrown"
    stages,         \* history: the waterfall stages that ran, in order
    candidate,      \* the schema compileScript handed to validateSchema
    compilerCalls,  \* number of calls of options.nodejsCompiler
    cbCalls,        \* the calls of the compile callback: (error, webtaskFn)
    nextCalled,     \* onlyOnce guard of the first waterfall task's callback
    thrown,         \* the exception that escaped the pipeline, if any
    compiled,       \* what options.nodejsCompiler called back with, if it did
    middlewareSpecs,    \* the middleware list the compiled pipeline closes over
    nextMiddlewareIdx,  \* index of the next middleware to invoke (0-based)
    ppc,                \* middleware pipeline: "idle" | "running" | "crashed"
    invoked,            \* history: the middleware invoked for the request, in order
    nextCalls,          \* history: the calls of next, in order: who called, with what
    written,            \* history: the responses written to res, in order
    requestNo,          \* number of requests the pipeline was invoked for
    cache,              \* per default middleware: whether its adapter is cached
    compiles,           \* history: the calls of nodejsCompiler by default middleware
    specParts,          \* the pieces of a middleware spec string to resolve
    resolution          \* what Util.resolveCompiler made of that string

compileVars == <<script, cpc, stages, candidate, compilerCalls, cbCalls,
                 nextCalled, thrown, compiled>>

pipelineVars == <<middlewareSpecs, nextMiddlewareIdx, ppc, invoked, nextCalls,
                  written, requestNo, cache, compiles, specParts, resolution>>

vars == <<sequence, pc, req, wreck, calls, results, completed, cbCalled,
          memo, res, log, previous, script, cpc, stages, candidate, compilerCalls,
          cbCalls, nextCalled, thrown, compiled, middlewareSpecs,
          nextMiddlewareIdx, ppc, invoked, nextCalls, written, requestNo,
          cache, compiles, specParts, resolution>>

-----------------------------------------------------------------------------
(* Values *)

Undefined == [kind |-> "undefined"]

\* Message bodies: a stream of bytes, or the text JSON.stringify produced
\* from an array or from an object.
StreamBody(content) == [type |-> "stream", value |-> content]
NoBody == [type |-> "none", value |-> ""]

EmptyObject == [k \in {} |-> ""]

\* Nodes that pass workflowNodeSchema: Joi.object({name}) rejects unknown keys
\* and empty strings, so a validated node carries a non-empty name only.
NodePool == { [name |-> "a"], [name |-> "b"] }

RECURSIVE SeqsUpTo(_, _)
SeqsUpTo(S, n) ==
    IF n = 0 THEN { <<>> }
    ELSE LET shorter == SeqsUpTo(S, n - 1)
         IN shorter \cup { Append(s, x) : s \in { t \in shorter : Len(t) = n - 1 }, x \in S }

\* Definitions an executor can be bound to (createCompiler only binds the two
\* registered types; the schema lets an empty node list through).
Definitions ==
    { [type |-> t, nodes |-> ns] : t \in {"fanout", "sequence"},
                                   ns \in SeqsUpTo(NodePool, MaxNodes) }

ReqHeaderChoices ==
    { ("host" :> "wt.example") @@ ("x-forwarded-proto" :> "http")
        @@ ("content-length" :> "2") @@ ("authorization" :> "Bearer t"),
      ("host" :> "wt.example") @@ ("content-type" :> "text/plain")
        @@ ("X-Forwarded-For" :> "10.0.0.1") }

UrlFormats == { USE_SHARED_DOMAIN, USE_CUSTOM_DOMAIN, USE_WILDCARD_DOMAIN, 4 }

Requests ==
    { [method |-> m, headers |-> h, query |-> q,
       x_wt |-> [url_format |-> f, container |-> "c1"],
       body |-> StreamBody("in")] :
        m \in {"GET", "POST"}, h \in ReqHeaderChoices,
        q \in { << <<"q", "1">> >> }, f \in UrlFormats }

ResHeaderChoices ==
    { ("content-type" :> "application/json") @@ ("content-length" :> "7")
        @@ ("connection" :> "keep-alive"),
      ("content-type" :> "text/html") @@ ("x-node" :> "n")
        @@ ("Content-Length" :> "7") }

StatusMessage(s) ==
    CASE s = 200 -> "OK"
      [] s = 302 -> "Found"
      [] s = 404 -> "Not Found"
      [] s = 500 -> "Internal Server Error"
      [] s = 502 -> "Bad Gateway"
      [] s = 504 -> "Gateway Time-out"
      [] OTHER -> "Unknown"

Statuses == {200, 302, 404}

Responses ==
    { [statusCode |-> s, statusMessage |-> StatusMessage(s), headers |-> h,
       body |-> StreamBody("out")] : s \in Statuses, h \in ResHeaderChoices }

\* Boom error object: output.statusCode, output.payload, output.headers.
\* A 500 hides its message from the payload.
BoomCreate(statusCode, message) ==
    [message |-> message,
     output |-> [statusCode |-> statusCode,
                 headers |-> EmptyObject,
                 payload |-> [statusCode |-> statusCode,
                              error |-> StatusMessage(statusCode),
                              message |-> IF statusCode = 500
                                          THEN "An internal server error occurred"
                                          ELSE message]]]

\* The errors wreck.request reports: a failed connection and a timeout.
TransportErrors ==
    { BoomCreate(502, "Client request error"),
      BoomCreate(504, "Client request timeout") }

NoError == [kind |-> "null"]
NoOutcome == [kind |-> "none"]

\* What the callback of wreck.request is called with: (error, response).
Outcomes ==
    { [kind |-> "error", error |-> e] : e \in TransportErrors }
        \cup { [kind |-> "response", response |-> r] : r \in Responses }

-----------------------------------------------------------------------------
(* Helpers of workflow.js *)

DeleteKey(h, k) == [x \in (DOMAIN h) \ {k} |-> h[x]]

\* The lower-case spelling of the header names that occur in the model.
LowerCase(name) ==
    CASE name = "X-Forwarded-For" -> "x-forwarded-for"
      [] name = "Content-Length" -> "content-length"
      [] name = "Content-Type" -> "content-type"
      [] name = "Content-type" -> "content-type"
      [] name = "Connection" -> "connection"
      [] OTHER -> name

\* Variant: the eight names are deleted whatever their letter case.
getNormalizedHeadersAnyCase(stream) ==
    [k \in { x \in DOMAIN stream.headers :
                LowerCase(x) \notin
                    { "accept-version", "connection", "content-length", "host",
                      "x-forwarded-for", "x-forwarded-port", "x-forwarded-proto",
                      "x-wt-params" } } |-> stream.headers[k]]

getNormalizedHeaders(stream) ==
    LET h0 == stream.headers
        h1 == DeleteKey(h0, "accept-version")
        h2 == DeleteKey(h1, "connection")
        h3 == DeleteKey(h2, "content-length")
        h4 == DeleteKey(h3, "host")
        h5 == DeleteKey(h4, "x-forwarded-for")
        h6 == DeleteKey(h5, "x-forwarded-port")
        h7 == DeleteKey(h6, "x-forwarded-proto")
    IN DeleteKey(h7, "x-wt-params")

\* Variant: the keys are deleted from stream.headers itself.
StreamAfterNormalizeInPlace(stream) ==
    [stream EXCEPT !.headers = getNormalizedHeaders(stream)]

\* The stream after getNormalizedHeaders(stream): the deletions are made on
\* the copy Object.assign({}, stream.headers) built.
StreamAfterNormalize(stream) == stream

HeaderOr(h, k, dflt) == IF k \in DOMAIN h THEN h[k] ELSE dflt

\* Variant: an unknown url format falls back to the wildcard-domain URL.
createWreckFallback(r, schema) ==
    [threw |-> FALSE,
     baseUrl |-> HeaderOr(r.headers, "x-forwarded-proto", "https") \o "://"
                    \o HeaderOr(r.headers, "host", "undefined") \o "/",
     headers |-> ("Connection" :> "keep-alive"),
     timeout |-> DEFAULT_TIMEOUT]

createWreck(r, schema) ==
    LET proto == HeaderOr(r.headers, "x-forwarded-proto", "https")
        host == HeaderOr(r.headers, "host", "undefined")
        fmt == r.x_wt.url_format
        baseUrl ==
            IF fmt = USE_CUSTOM_DOMAIN
            THEN proto \o "://" \o host \o "/" \o r.x_wt.container \o "/"
            ELSE IF fmt = USE_SHARED_DOMAIN
            THEN proto \o "://" \o host \o "/api/run/" \o r.x_wt.container \o "/"
            ELSE IF fmt = USE_WILDCARD_DOMAIN
            THEN proto \o "://" \o host \o "/"
            ELSE ""
    IN IF baseUrl = ""
       THEN [threw |-> TRUE,
             message |-> "Unexpected url format: " \o ToString(fmt)]
       ELSE [threw |-> FALSE,
             baseUrl |-> baseUrl,
             headers |-> ("Connection" :> "keep-alive"),
             timeout |-> IF "timeout" \in DOMAIN schema
                         THEN schema.timeout ELSE DEFAULT_TIMEOUT]

\* Object.assign(target, source) on query objects: a key of source replaces
\* the value in place, a new key is appended.
RECURSIVE ObjectAssign(_, _)
ObjectAssign(target, source) ==
    IF source = <<>> THEN target
    ELSE LET p == Head(source)
             hit == { i \in 1..Len(target) : target[i][1] = p[1] }
             t1 == IF hit = {} THEN Append(target, p)
                   ELSE [i \in 1..Len(target) |->
                            IF i \in hit THEN p ELSE target[i]]
         IN ObjectAssign(t1, Tail(source))

RECURSIVE QuerystringStringify(_)
QuerystringStringify(q) ==
    IF q = <<>> THEN ""
    ELSE LET kv == q[1][1] \o "=" \o q[1][2]
         IN IF Len(q) = 1 THEN kv
            ELSE kv \o "&" \o QuerystringStringify(Tail(q))

NodeQuery(node) == IF "query" \in DOMAIN node THEN node.query ELSE <<>>

\* The arguments of one wreck.request call.
NodeRequest(node, r, headers, payload) ==
    [method |-> IF "method" \in DOMAIN node THEN node.method ELSE r.method,
     uri |-> "/" \o node.name \o "?"
                \o QuerystringStringify(ObjectAssign(r.query, NodeQuery(node))),
     options |-> [headers |-> headers, payload |-> payload]]

\* Variant: the method default is written back (node.method = node.method
\* || req.method).
NodeAfterRequestDefaulted(node, r) ==
    IF "method" \in DOMAIN node THEN node ELSE ("method" :> r.method) @@ node

\* The node after the iteratee built its request: node.method, node.query and
\* node.name are read, and Object.assign writes into a new object.
NodeAfterRequest(node, r) == node

JSONStringify(type, v) == [type |-> type, value |-> v]

N == Len(sequence.nodes)

PendingCall == [state |-> "pending", request |-> Undefined, outcome |-> NoOutcome]

FreshRes == [headWrites |-> 0, ends |-> 0, statusCode |-> 0,
             headers |-> EmptyObject, body |-> NoBody]

\* res.writeHead(statusCode, headers) followed by the end of the response
\* (res.end(body), or the end of the stream piped into res).
WriteResponse(r, out) ==
    [headWrites |-> r.headWrites + 1, ends |-> r.ends + 1,
     statusCode |-> out.statusCode, headers |-> out.headers, body |-> out.body]

Event(e, i) == [ev |-> e, idx |-> i]

-----------------------------------------------------------------------------
(* Compile pipeline: compiler, compileScript, validateSchema, createCompiler *)

\* Workflow definition objects are functions from the keys they have to the
\* values; a missing key is missing from the domain.
ExecutorTypes == {"fanout", "sequence"}

NodeA == [name |-> "a"]
NodeB == [name |-> "b"]
NodeBlank == [name |-> ""]
NodeNoName == EmptyObject
NodeWithMethod == [name |-> "a", method |-> "POST"]

NodeLists ==
    { <<>>, <<NodeA>>, <<NodeA, NodeB>>, <<NodeBlank>>, <<NodeNoName>>,
      <<NodeA, NodeNoName>>, <<NodeWithMethod>> }

\* What a script can denote: with or without type (registered, unregistered,
\* empty), with or without nodes, and one with a key the schema does not list.
Candidates ==
    { t @@ n : t \in { ("type" :> x) : x \in ExecutorTypes \cup {"loop", ""} }
                        \cup { EmptyObject },
               n \in { ("nodes" :> ns) : ns \in NodeLists } \cup { EmptyObject } }
        \cup { [type |-> "fanout", nodes |-> <<NodeA>>, timeout |-> "5000"] }

\* The JSON text of a definition object.
Quoted(str) == "\"" \o str \o "\""

RECURSIVE JoinWithCommas(_)
JoinWithCommas(parts) ==
    IF parts = <<>> THEN ""
    ELSE IF Len(parts) = 1 THEN parts[1]
    ELSE parts[1] \o "," \o JoinWithCommas(Tail(parts))

NodeText(n) ==
    "{" \o JoinWithCommas(
              (IF "name" \in DOMAIN n
               THEN << Quoted("name") \o ":" \o Quoted(n.name) >> ELSE <<>>)
              \o (IF "method" \in DOMAIN n
                  THEN << Quoted("method") \o ":" \o Quoted(n.method) >> ELSE <<>>))
        \o "}"

JSONText(c) ==
    "{" \o JoinWithCommas(
              (IF "type" \in DOMAIN c
               THEN << Quoted("type") \o ":" \o Quoted(c.type) >> ELSE <<>>)
              \o (IF "nodes" \in DOMAIN c
                  THEN << Quoted("nodes") \o ":["
                            \o JoinWithCommas([i \in 1..Len(c.nodes) |->
                                                  NodeText(c.nodes[i])])
                            \o "]" >>
                  ELSE <<>>)
              \o (IF "timeout" \in DOMAIN c
                  THEN << Quoted("timeout") \o ":" \o c.timeout >> ELSE <<>>))
        \o "}"

\* Texts that are not JSON (workflow code for the nodejs compiler).
CodeTexts == { "module.exports = workflow;", "return {" }

TextScript(t) == [kind |-> "text", text |-> t]
ObjectScript(c) == [kind |-> "object", value |-> c]

Scripts ==
    { Undefined, TextScript("") }
        \cup { ObjectScript(c) : c \in Candidates }
        \cup { TextScript(JSONText(c)) : c \in Candidates }
        \cup { TextScript(t) : t \in CodeTexts }

\* !script
Falsy(sc) == sc = Undefined \/ (sc.kind = "text" /\ sc.text = "")

\* Variant: the parsed nodes keep their name only (a reviver that filters keys).
JSONParseLossy(text) ==
    IF \E c \in Candidates : JSONText(c) = text
    THEN LET c == CHOOSE x \in Candidates : JSONText(x) = text
         IN [ok |-> TRUE,
             value |-> IF "nodes" \in DOMAIN c
                       THEN [c EXCEPT !["nodes"] =
                                [i \in 1..Len(c.nodes) |->
                                    [k \in (DOMAIN c.nodes[i]) \cap {"name"} |->
                                        c.nodes[i][k]]]]
                       ELSE c]
    ELSE [ok |-> FALSE, value |-> Undefined]

\* JSON.parse(text): the value the text denotes, or a SyntaxError.
JSONParse(text) ==
    IF \E c \in Candidates : JSONText(c) = text
    THEN [ok |-> TRUE, value |-> CHOOSE c \in Candidates : JSONText(c) = text]
    ELSE [ok |-> FALSE, value |-> Undefined]

\* What options.nodejsCompiler calls back with: (error, schema).
CompilerOutcomes ==
    { [kind |-> "error", message |-> "Unexpected token"] }
        \cup { [kind |-> "schema", schema |-> c] : c \in Candidates }

ErrorOf(message) == [message |-> message]

\* Variant: an empty name is let through (Joi.string().allow('')).
NodeErrorAllowBlank(n) ==
    IF "name" \notin DOMAIN n
    THEN "child \"name\" fails because [\"name\" is required]"
    ELSE IF n.name # "" /\ DOMAIN n # {"name"}
    THEN Quoted(CHOOSE k \in (DOMAIN n) \ {"name"} : TRUE) \o " is not allowed"
    ELSE ""

\* workflowNodeSchema applied to one node: the Joi error message, "" if none.
NodeError(n) ==
    IF "name" \notin DOMAIN n
    THEN "child \"name\" fails because [\"name\" is required]"
    ELSE IF n.name = ""
    THEN "child \"name\" fails because [\"name\" is not allowed to be empty]"
    ELSE IF DOMAIN n # {"name"}
    THEN Quoted(CHOOSE k \in (DOMAIN n) \ {"name"} : TRUE) \o " is not allowed"
    ELSE ""

\* workflowSchema applied to a candidate (keys in schema order, first error
\* only, unknown keys last): the Joi error message, "" if none.
SchemaError(c) ==
    IF "type" \notin DOMAIN c
    THEN "child \"type\" fails because [\"type\" is required]"
    ELSE IF c.type = ""
    THEN "child \"type\" fails because [\"type\" is not allowed to be empty]"
    ELSE IF "nodes" \notin DOMAIN c
    THEN "child \"nodes\" fails because [\"nodes\" is required]"
    ELSE IF \E i \in 1..Len(c.nodes) : NodeError(c.nodes[i]) # ""
    THEN LET i == CHOOSE k \in 1..Len(c.nodes) :
                    /\ NodeError(c.nodes[k]) # ""
                    /\ \A l \in 1..(k - 1) : NodeError(c.nodes[l]) = ""
         IN "child \"nodes\" fails because [\"nodes\" at position "
                \o ToString(i - 1) \o " fails because ["
                \o NodeError(c.nodes[i]) \o "]]"
    ELSE IF DOMAIN c # {"type", "nodes"}
    THEN Quoted(CHOOSE k \in (DOMAIN c) \ {"type", "nodes"} : TRUE)
            \o " is not allowed"
    ELSE ""

\* Boom.wrap(error, statusCode, message): the message is put in front of the
\* error's own message.
BoomWrap(error, statusCode, message) ==
    [message |-> message \o ": " \o error.message,
     output |-> BoomCreate(statusCode, message \o ": " \o error.message).output]

\* validateSchema: the (error, schema) its callback is called with.
validateSchema(schema) ==
    LET m == SchemaError(schema)
    IN IF m # ""
       THEN [error |-> BoomWrap(ErrorOf(m), 500,
                                "Invalid webtask workflow: " \o m),
             schema |-> Undefined]
       ELSE [error |-> NoError, schema |-> schema]

Executor(schema) ==
    [name |-> IF schema.type = "fanout" THEN "webtaskFanout" ELSE "webtaskSequence",
     sequence |-> schema]

\* createCompiler: looks the type up in compoundWebtaskCompilers and calls
\* what it finds.
createCompiler(schema) ==
    IF schema.type \in ExecutorTypes
    THEN [threw |-> FALSE, fn |-> Executor(schema), exception |-> NoError]
    ELSE [threw |-> TRUE, fn |-> Undefined,
          exception |-> ErrorOf("TypeError: compiler is not a function")]

CallbackCall(error, fn) == [error |-> error, fn |-> fn]

\* The waterfall from the first task's callback on: validateSchema, then
\* createCompiler, then the compile callback, run synchronously. The result
\* tells which stages ran, the callback call made and the exception raised.
RunWaterfall(schema) ==
    LET v == validateSchema(schema)
    IN IF v.error # NoError
       THEN [stages |-> <<"validateSchema">>,
             cb |-> <<CallbackCall(v.error, Undefined)>>,
             exception |-> NoError]
       ELSE LET c == createCompiler(v.schema)
            IN IF c.threw
               THEN [stages |-> <<"validateSchema", "createCompiler">>,
                     cb |-> <<>>,
                     exception |-> c.exception]
               ELSE [stages |-> <<"validateSchema", "createCompiler">>,
                     cb |-> <<CallbackCall(NoError, c.fn)>>,
                     exception |-> NoError]

-----------------------------------------------------------------------------
\* An executor compiled from a definition object, before its first invocation.
Init ==
    /\ sequence \in Definitions
    /\ pc = "idle"
    /\ req = Undefined
    /\ wreck = Undefined
    /\ calls = [i \in 1..Len(sequence.nodes) |-> PendingCall]
    /\ results = [i \in 1..Len(sequence.nodes) |-> Undefined]
    /\ completed = 0
    /\ cbCalled = FALSE
    /\ memo = Undefined
    /\ res = FreshRes
    /\ log = <<>>
    /\ previous = Undefined
    /\ script = ObjectScript(sequence)
    /\ cpc = "done"
    /\ stages = <<"compileScript", "validateSchema", "createCompiler">>
    /\ candidate = sequence
    /\ compilerCalls = 0
    /\ cbCalls = <<CallbackCall(NoError, Executor(sequence))>>
    /\ nextCalled = TRUE
    /\ thrown = NoError
    /\ compiled = NoOutcome
    /\ middlewareSpecs = <<>>
    /\ nextMiddlewareIdx = 0
    /\ ppc = "idle"
    /\ invoked = <<>>
    /\ nextCalls = <<>>
    /\ written = <<>>
    /\ requestNo = 0
    /\ cache = <<>>
    /\ compiles = <<>>
    /\ specParts = Undefined
    /\ resolution = Undefined

-----------------------------------------------------------------------------
(* Fan-out executor: compileFanout *)

\* Variant: an error outcome also aborts the sibling calls still in flight.
callDoneCancelSiblings(cs, i, o) ==
    [j \in DOMAIN cs |->
        IF j = i \/ (o.kind = "error" /\ cs[j].state = "inflight")
        THEN [state |-> "done", request |-> cs[j].request, outcome |-> o]
        ELSE cs[j]]

\* The wreck.request callback of node i ran with outcome o; no other call
\* is touched.
callDone(cs, i, o) ==
    [cs EXCEPT ![i] = [state |-> "done", request |-> cs[i].request, outcome |-> o]]

\* Variant: only the first node is started (a series map).
fanoutDispatchFirstOnly(nodes, r, headers) ==
    [i \in 1..Len(nodes) |->
        IF i = 1
        THEN [state |-> "inflight",
              request |-> NodeRequest(nodes[i], r, headers, r),
              outcome |-> NoOutcome]
        ELSE PendingCall]

\* Async.map starts the iteratee for every node before returning.
fanoutDispatch(nodes, r, headers) ==
    [i \in 1..Len(nodes) |->
        [state |-> "inflight",
         request |-> NodeRequest(nodes[i], r, headers, r),
         outcome |-> NoOutcome]]

\* Variant: results.push(v), the value lands in the first free slot.
mapStorePush(rs, index, v) ==
    LET free == { k \in DOMAIN rs : rs[k] = Undefined }
        slot == IF free = {} THEN index
                ELSE CHOOSE k \in free : \A l \in free : k <= l
    IN [rs EXCEPT ![slot] = v]

\* Async.map: results[index] = v.
mapStore(rs, index, v) == [rs EXCEPT ![index] = v]

ResponseSummary(response) ==
    [statusCode |-> response.statusCode,
     statusMessage |-> response.statusMessage,
     headers |-> response.headers]

\* Variant: the status test is inverted (=== 200).
RECURSIVE fanoutReduceInverted(_, _, _)
fanoutReduceInverted(result, responses, idx) ==
    IF idx > Len(responses) THEN result
    ELSE LET response == responses[idx]
             r1 == IF response.statusCode = 200
                   THEN [result EXCEPT !.statusCode = 502] ELSE result
             r2 == [r1 EXCEPT !.payload = Append(@, ResponseSummary(response))]
         IN fanoutReduceInverted(r2, responses, idx + 1)

\* responses.reduce(..., resultSeed)
RECURSIVE fanoutReduce(_, _, _)
fanoutReduce(result, responses, idx) ==
    IF idx > Len(responses) THEN result
    ELSE LET response == responses[idx]
             r1 == IF response.statusCode # 200
                   THEN [result EXCEPT !.statusCode = 502] ELSE result
             r2 == [r1 EXCEPT !.payload = Append(@, ResponseSummary(response))]
         IN fanoutReduce(r2, responses, idx + 1)

\* Variant: every error is answered with a 500 status line.
ErrorResponse500(error) ==
    [statusCode |-> 500,
     headers |-> error.output.headers @@ ("Content-Type" :> "application/json"),
     body |-> JSONStringify("object", error.output.payload)]

\* Variant: the body is the message alone (JSON.stringify({message})).
ErrorResponseMessageOnly(error) ==
    [statusCode |-> error.output.statusCode,
     headers |-> error.output.headers @@ ("Content-Type" :> "application/json"),
     body |-> JSONStringify("object", [message |-> error.output.payload.message])]

ErrorResponse(error) ==
    [statusCode |-> error.output.statusCode,
     headers |-> error.output.headers @@ ("Content-Type" :> "application/json"),
     body |-> JSONStringify("object", error.output.payload)]

\* Variant: an error is answered like a failed node, with 502 and the array
\* of the responses that are in.
fanoutCallbackAggregateErrors(error, responses) ==
    LET resultSeed == [headers |-> ("Content-type" :> "application/json"),
                       payload |-> <<>>,
                       statusCode |-> IF error # NoError THEN 502 ELSE 200]
        result == fanoutReduce(resultSeed,
                               SelectSeq(responses, LAMBDA x : x # Undefined), 1)
    IN [statusCode |-> result.statusCode,
        headers |-> result.headers,
        body |-> JSONStringify("array", result.payload)]

\* The final callback of Async.map: what it writes to res.
fanoutCallback(error, responses) ==
    IF error # NoError THEN ErrorResponse(error)
    ELSE LET resultSeed == [headers |-> ("Content-type" :> "application/json"),
                            payload |-> <<>>,
                            statusCode |-> 200]
             result == fanoutReduce(resultSeed, responses, 1)
         IN [statusCode |-> result.statusCode,
             headers |-> result.headers,
             body |-> JSONStringify("array", result.payload)]

\* History: the calls of cs that were started, in index order.
RECURSIVE DispatchEvents(_, _)
DispatchEvents(cs, from) ==
    IF from > Len(cs) THEN <<>>
    ELSE (IF cs[from].state = "inflight" THEN <<Event("dispatch", from)>> ELSE <<>>)
            \o DispatchEvents(cs, from + 1)

webtaskFanout(r) ==
    /\ pc = "idle"
    /\ sequence.type = "fanout"
    /\ LET headers == getNormalizedHeaders(r)
           r1 == StreamAfterNormalize(r)
           w == createWreck(r1, sequence)
       IN /\ req' = r1
          /\ wreck' = w
          /\ IF w.threw
             THEN /\ pc' = "thrown"
                  /\ UNCHANGED <<sequence, calls, cbCalled, res, log>>
             ELSE /\ calls' = fanoutDispatch(sequence.nodes, r1, headers)
                  /\ sequence' = [sequence EXCEPT !.nodes =
                                     [i \in 1..N |-> NodeAfterRequest(@[i], r)]]
                  /\ log' = log \o DispatchEvents(calls', 1)
                  /\ IF N = 0
                     THEN /\ cbCalled' = TRUE
                          /\ res' = WriteResponse(res, fanoutCallback(NoError, results))
                          /\ pc' = "done"
                     ELSE /\ pc' = "running"
                          /\ UNCHANGED <<cbCalled, res>>
    /\ UNCHANGED <<results, completed, memo, previous>>
    /\ UNCHANGED compileVars
    /\ UNCHANGED pipelineVars

\* Variant: no guard, the final callback runs on every error and on the last
\* result.
mapFiresUnguarded(called, err, done, n) == err \/ done = n

\* Async.map runs its final callback once: on the first error, or when all
\* n results are in and no error came before.
mapFires(called, err, done, n) == ~called /\ (err \/ done = n)

FanoutOutcome(i, o) ==
    /\ sequence.type = "fanout"
    /\ calls[i].state = "inflight"
    /\ calls' = callDone(calls, i, o)
    /\ log' = Append(log, Event("outcome", i))
    /\ LET err == o.kind = "error"
           results1 == mapStore(results, i, IF err THEN Undefined ELSE o.response)
           completed1 == IF err THEN completed ELSE completed + 1
           fire == mapFires(cbCalled, err, completed1, N)
       IN /\ results' = results1
          /\ completed' = completed1
          /\ cbCalled' = (cbCalled \/ fire)
          /\ IF fire
             THEN /\ res' = WriteResponse(res,
                               fanoutCallback(IF err THEN o.error ELSE NoError,
                                              results1))
                  /\ pc' = "done"
             ELSE UNCHANGED <<res, pc>>
    /\ UNCHANGED <<sequence, req, wreck, memo, previous>>
    /\ UNCHANGED compileVars
    /\ UNCHANGED pipelineVars

-----------------------------------------------------------------------------
(* Sequence executor: compileSequence *)

\* Variant: a status >= 400 is reported as a 500 like any other non-200.
sequenceClassifyAll500(o) ==
    IF o.kind = "error" THEN o.error
    ELSE IF o.response.statusCode # 200
    THEN BoomCreate(500, "Unexpected status code: "
                             \o ToString(o.response.statusCode))
    ELSE NoError

\* Variant: every non-200 status is turned into an error of that status.
sequenceClassifyForward(o) ==
    IF o.kind = "error" THEN o.error
    ELSE IF o.response.statusCode # 200
    THEN BoomCreate(o.response.statusCode,
                    "Unexpected status code: " \o ToString(o.response.statusCode))
    ELSE NoError

\* The error the wreck.request callback of a sequence node hands to next().
sequenceClassify(o) ==
    LET e0 == IF o.kind = "error" THEN o.error ELSE NoError
        e1 == IF e0 = NoError /\ o.response.statusCode >= 400
              THEN BoomCreate(o.response.statusCode,
                              "Unexpected status code: "
                                  \o ToString(o.response.statusCode))
              ELSE e0
        e2 == IF e1 = NoError /\ o.response.statusCode # 200
              THEN BoomCreate(500, "Unexpected status code: "
                                       \o ToString(o.response.statusCode))
              ELSE e1
    IN e2

\* Variant: the next node is started along with node i (no waiting).
sequenceDispatchEager(cs, i, r, payload) ==
    [j \in DOMAIN cs |->
        IF j = i \/ (j = i + 1 /\ cs[j].state = "pending")
        THEN [state |-> "inflight",
              request |-> NodeRequest(sequence.nodes[j], r,
                                      getNormalizedHeaders(payload), payload),
              outcome |-> NoOutcome]
        ELSE cs[j]]

\* Variant: every node is sent the inbound request.
sequenceDispatchInbound(cs, i, r, payload) ==
    [cs EXCEPT ![i] =
        [state |-> "inflight",
         request |-> NodeRequest(sequence.nodes[i], r,
                                 getNormalizedHeaders(r), r),
         outcome |-> NoOutcome]]

\* The Async.reduce iteratee for node i: one wreck.request call.
sequenceDispatch(cs, i, r, payload) ==
    [cs EXCEPT ![i] =
        [state |-> "inflight",
         request |-> NodeRequest(sequence.nodes[i], r,
                                 getNormalizedHeaders(payload), payload),
         outcome |-> NoOutcome]]

\* Variant: the final response's headers go through getNormalizedHeaders.
sequenceCallbackNormalized(error, result) ==
    IF error # NoError THEN ErrorResponse(error)
    ELSE [statusCode |-> result.statusCode,
          headers |-> getNormalizedHeaders(result),
          body |-> result.body]

\* The final callback of Async.reduce: what it writes to res.
sequenceCallback(error, result) ==
    IF error # NoError THEN ErrorResponse(error)
    ELSE [statusCode |-> result.statusCode,
          headers |-> result.headers,
          body |-> result.body]

webtaskSequence(r) ==
    /\ pc = "idle"
    /\ sequence.type = "sequence"
    /\ LET w == createWreck(r, sequence)
       IN /\ wreck' = w
          /\ req' = IF w.threw \/ N = 0 THEN r ELSE StreamAfterNormalize(r)
          /\ IF w.threw
             THEN /\ pc' = "thrown"
                  /\ UNCHANGED <<sequence, calls, cbCalled, res, log, memo>>
             ELSE /\ memo' = r
                  /\ IF N = 0
                     THEN \* the callback runs with the request as result:
                          \* res.writeHead(null, ...) throws or writes,
                          \* depending on the runtime
                          /\ cbCalled' = TRUE
                          /\ UNCHANGED <<sequence, calls, log>>
                          /\ \/ /\ pc' = "thrown"
                                /\ UNCHANGED res
                             \/ /\ pc' = "done"
                                /\ res' = WriteResponse(res,
                                      [statusCode |-> 0, headers |-> r.headers,
                                       body |-> r.body])
                     ELSE /\ calls' = sequenceDispatch(calls, 1, r, r)
                          /\ sequence' = [sequence EXCEPT !.nodes[1] =
                                             NodeAfterRequest(@, r)]
                          /\ log' = log \o DispatchEvents(calls', 1)
                          /\ pc' = "running"
                          /\ UNCHANGED <<cbCalled, res>>
    /\ UNCHANGED <<results, completed, previous>>
    /\ UNCHANGED compileVars
    /\ UNCHANGED pipelineVars

SequenceOutcome(i, o) ==
    /\ sequence.type = "sequence"
    /\ calls[i].state = "inflight"
    /\ LET error == sequenceClassify(o)
           calls1 == callDone(calls, i, o)
           last == i = N
           fire == ~cbCalled /\ (error # NoError \/ last)
       IN /\ memo' = IF error # NoError THEN Undefined ELSE o.response
          /\ cbCalled' = (cbCalled \/ fire)
          /\ IF error = NoError /\ ~last
             THEN /\ calls' = sequenceDispatch(calls1, i + 1, req, o.response)
                  /\ sequence' = [sequence EXCEPT !.nodes[i + 1] =
                                     NodeAfterRequest(@, req)]
                  /\ log' = Append(log, Event("outcome", i))
                                \o DispatchEvents(calls', 1)
             ELSE /\ calls' = calls1
                  /\ UNCHANGED sequence
                  /\ log' = Append(log, Event("outcome", i))
          /\ IF fire
             THEN /\ res' = WriteResponse(res,
                               sequenceCallback(error,
                                   IF error # NoError THEN Undefined ELSE o.response))
                  /\ pc' = "done"
             ELSE UNCHANGED <<res, pc>>
    /\ UNCHANGED <<req, wreck, results, completed, previous>>
    /\ UNCHANGED compileVars
    /\ UNCHANGED pipelineVars

-----------------------------------------------------------------------------
Next ==
    \/ \E r \in Requests : webtaskFanout(r)
    \/ \E i \in DOMAIN calls : \E o \in Outcomes : FanoutOutcome(i, o)
    \/ \E r \in Requests : webtaskSequence(r)
    \/ \E i \in DOMAIN calls : \E o \in Outcomes : SequenceOutcome(i, o)

Spec == Init /\ [][Next]_vars

-----------------------------------------------------------------------------
(* The same executor invoked again *)

\* The invocation is over (the response is written, or the executor threw)
\* and the executor is called for the next inbound request: req and res are
\* new objects, and headers, wreck and the state of Async.map / Async.reduce
\* are locals of the new call. Only the definition is shared.
NextRequest ==
    /\ pc \in {"done", "thrown"}
    /\ previous' = [req |-> req, calls |-> calls, res |-> res, pc |-> pc]
    /\ pc' = "idle"
    /\ req' = Undefined
    /\ wreck' = Undefined
    /\ calls' = [i \in 1..N |-> PendingCall]
    /\ results' = [i \in 1..N |-> Undefined]
    /\ completed' = 0
    /\ cbCalled' = FALSE
    /\ memo' = Undefined
    /\ res' = FreshRes
    /\ log' = <<>>
    /\ UNCHANGED sequence
    /\ UNCHANGED compileVars
    /\ UNCHANGED pipelineVars

RepeatRequests ==
    { r \in Requests :
        /\ r.method = "GET"
        /\ \/ r.x_wt.url_format = USE_SHARED_DOMAIN
              /\ "content-length" \in DOMAIN r.headers
           \/ r.x_wt.url_format = 4 /\ "content-length" \notin DOMAIN r.headers }

RepeatOutcomes ==
    { o \in Outcomes :
        \/ o.kind = "error"
        \/ /\ o.kind = "response"
           /\ \/ o.response.statusCode = 200
                 /\ "content-length" \in DOMAIN o.response.headers
              \/ o.response.statusCode = 404
                 /\ "content-length" \notin DOMAIN o.response.headers }

RepeatNext ==
    \/ \E r \in RepeatRequests : webtaskFanout(r)
    \/ \E i \in DOMAIN calls : \E o \in RepeatOutcomes : FanoutOutcome(i, o)
    \/ \E r \in RepeatRequests : webtaskSequence(r)
    \/ \E i \in DOMAIN calls : \E o \in RepeatOutcomes : SequenceOutcome(i, o)
    \/ NextRequest

SpecRepeat == Init /\ [][RepeatNext]_vars

-----------------------------------------------------------------------------
(* Compile pipeline actions *)

EmptyScriptError == ErrorOf("Invalid webtask workflow: the webtask cannot be empty")

\* Variant: no test for an empty script, JSON.parse gets it.
compileScriptNoEmptyTest(sc) ==
    IF sc # Undefined /\ sc.kind = "object"
    THEN [step |-> "callback", schema |-> sc.value, inTry |-> FALSE, error |-> NoError]
    ELSE LET parsed == IF sc = Undefined THEN [ok |-> FALSE, value |-> Undefined]
                       ELSE JSONParse(sc.text)
         IN IF parsed.ok
            THEN [step |-> "callback", schema |-> parsed.value, inTry |-> TRUE,
                  error |-> NoError]
            ELSE [step |-> "compile", schema |-> Undefined, inTry |-> FALSE,
                  error |-> NoError]

\* compileScript up to its first callback: fail on an empty script, pass an
\* object on, parse text as JSON and pass the value on from inside the try
\* block, or hand the text to the nodejs compiler.
compileScript(sc) ==
    IF Falsy(sc)
    THEN [step |-> "fail", schema |-> Undefined, inTry |-> FALSE,
          error |-> EmptyScriptError]
    ELSE IF sc.kind = "object"
    THEN [step |-> "callback", schema |-> sc.value, inTry |-> FALSE, error |-> NoError]
    ELSE LET parsed == JSONParse(sc.text)
         IN IF parsed.ok
            THEN [step |-> "callback", schema |-> parsed.value, inTry |-> TRUE,
                  error |-> NoError]
            ELSE [step |-> "compile", schema |-> Undefined, inTry |-> FALSE,
                  error |-> NoError]

\* The definition the produced executor closes over.
BoundDefinition(cb, old) ==
    IF cb # <<>> /\ cb[1].fn # Undefined THEN cb[1].fn.sequence ELSE old

\* compiler(options, cb): the waterfall, as far as it runs synchronously.
compiler ==
    /\ cpc = "start"
    /\ LET first == compileScript(script)
       IN IF first.step = "fail"
          THEN /\ stages' = <<"compileScript">>
               /\ cbCalls' = <<CallbackCall(first.error, Undefined)>>
               /\ cpc' = "done"
               /\ UNCHANGED <<candidate, compilerCalls, nextCalled, thrown, sequence>>
          ELSE IF first.step = "compile"
          THEN /\ stages' = <<"compileScript">>
               /\ compilerCalls' = compilerCalls + 1
               /\ cpc' = "compiling"
               /\ UNCHANGED <<candidate, cbCalls, nextCalled, thrown, sequence>>
          ELSE LET w == RunWaterfall(first.schema)
               IN /\ stages' = <<"compileScript">> \o w.stages
                  /\ candidate' = first.schema
                  /\ nextCalled' = TRUE
                  /\ cbCalls' = w.cb
                  /\ sequence' = BoundDefinition(w.cb, sequence)
                  /\ IF w.exception = NoError
                     THEN /\ cpc' = "done"
                          /\ UNCHANGED <<compilerCalls, thrown>>
                     ELSE IF first.inTry
                     THEN \* catch (e): the text goes to the nodejs compiler
                          /\ compilerCalls' = compilerCalls + 1
                          /\ cpc' = "compiling"
                          /\ UNCHANGED thrown
                     ELSE /\ cpc' = "thrown"
                          /\ thrown' = w.exception
                          /\ UNCHANGED compilerCalls
    /\ UNCHANGED <<script, compiled, pc, req, wreck, calls, results, completed,
                   cbCalled, memo, res, log, previous>>
    /\ UNCHANGED pipelineVars

\* The callback compileScript gave to options.nodejsCompiler.
nodejsCompilerCallback(o) ==
    /\ cpc = "compiling"
    /\ compiled' = o
    /\ IF o.kind = "error"
       THEN \* `const error` shadows the parameter: reading error.message
            \* inside its own initializer throws
            /\ cpc' = "thrown"
            /\ thrown' = ErrorOf("ReferenceError: error is not defined")
            /\ UNCHANGED <<stages, candidate, cbCalls, nextCalled, sequence>>
       ELSE IF nextCalled
       THEN /\ cpc' = "thrown"
            /\ thrown' = ErrorOf("Callback was already called.")
            /\ UNCHANGED <<stages, candidate, cbCalls, nextCalled, sequence>>
       ELSE LET w == RunWaterfall(o.schema)
            IN /\ stages' = stages \o w.stages
               /\ candidate' = o.schema
               /\ nextCalled' = TRUE
               /\ cbCalls' = cbCalls \o w.cb
               /\ sequence' = BoundDefinition(w.cb, sequence)
               /\ thrown' = w.exception
               /\ cpc' = IF w.exception = NoError THEN "done" ELSE "thrown"
    /\ UNCHANGED <<script, compilerCalls, pc, req, wreck, calls, results,
                   completed, cbCalled, memo, res, log, previous>>
    /\ UNCHANGED pipelineVars

CompileInit ==
    /\ script \in Scripts
    /\ cpc = "start"
    /\ stages = <<>>
    /\ candidate = Undefined
    /\ compilerCalls = 0
    /\ cbCalls = <<>>
    /\ nextCalled = FALSE
    /\ thrown = NoError
    /\ compiled = NoOutcome
    /\ middlewareSpecs = <<>>
    /\ nextMiddlewareIdx = 0
    /\ ppc = "idle"
    /\ invoked = <<>>
    /\ nextCalls = <<>>
    /\ written = <<>>
    /\ requestNo = 0
    /\ cache = <<>>
    /\ compiles = <<>>
    /\ specParts = Undefined
    /\ resolution = Undefined
    /\ sequence = Undefined
    /\ pc = "idle"
    /\ req = Undefined
    /\ wreck = Undefined
    /\ calls = <<>>
    /\ results = <<>>
    /\ completed = 0
    /\ cbCalled = FALSE
    /\ memo = Undefined
    /\ res = FreshRes
    /\ log = <<>>
    /\ previous = Undefined

CompileNext ==
    \/ compiler
    \/ \E o \in CompilerOutcomes : nodejsCompilerCallback(o)

SpecCompile == CompileInit /\ [][CompileNext]_vars

-----------------------------------------------------------------------------
(* Middleware pipeline: src/compilers/middleware.js and                      *)
(* src/middleware/authenticate.js                                            *)

\* Largest number of calls of next the custom middleware of the first request
\* make; one less is followed for each later request.
MaxNextCalls == 2

\* Largest number of requests a compiled pipeline is invoked for.
MaxRequests == 2

AUTH_SECRET_NAME == "wt-auth-secret"

NoData == [kind |-> "none"]

\* new Error(message): statusCode 0 and code "" stand for an absent property.
NewError(message) ==
    [isError |-> TRUE, message |-> message, statusCode |-> 0, code |-> "",
     data |-> NoData, text |-> "Error: " \o message]

WithStatus(e, statusCode) == [e EXCEPT !.statusCode = statusCode]

\* What a middleware passes to next as an error or throws: Error instances
\* with and without statusCode and data, a plain object and a string.
NextErrors ==
    { NewError("boom"),
      WithStatus(NewError("teapot"), 418),
      [WithStatus(NewError("bad data"), 400) EXCEPT !.data = [kind |-> "circular"]],
      [WithStatus(NewError("conflict"), 409) EXCEPT
          !.data = [kind |-> "plain", value |-> "d"]],
      [isError |-> FALSE, message |-> "denied", statusCode |-> 401, code |-> "",
       data |-> NoData, text |-> "[object Object]"],
      [isError |-> FALSE, message |-> "", statusCode |-> 0, code |-> "",
       data |-> NoData, text |-> "oops"] }

\* Variant: every error is answered with status 500.
NormalizeErrorAlways500(error) ==
    LET e1 == IF ~error.isError
              THEN NewError(IF error.message # "" THEN error.message
                            ELSE IF error.text # "" THEN error.text
                            ELSE "Unknown error")
              ELSE error
    IN WithStatus(e1, 500)

\* respondWithError, lines 118-126: a value that is no Error is replaced by
\* a new Error with its message; a missing statusCode becomes 500.
NormalizeError(error) ==
    LET e1 == IF ~error.isError
              THEN NewError(IF error.message # "" THEN error.message
                            ELSE IF error.text # "" THEN error.text
                            ELSE "Unknown error")
              ELSE error
    IN IF e1.statusCode = 0 THEN WithStatus(e1, 500) ELSE e1

\* respondWithError, lines 132-149: message and statusCode, the optional
\* properties that are set, and the stack of a 500.
ErrorPayload(e) ==
    (IF e.code # "" THEN ("code" :> e.code) ELSE EmptyObject)
        @@ (IF e.data.kind # "none" THEN ("data" :> e.data) ELSE EmptyObject)
        @@ (IF e.statusCode = 500 THEN ("stack" :> e.text \o "\n    at") ELSE EmptyObject)
        @@ [message |-> e.message, statusCode |-> e.statusCode]

\* JSON.stringify(payload) throws on a circular structure.
Serializable(payload) ==
    ~("data" \in DOMAIN payload /\ payload.data.kind = "circular")

SerializationError ==
    WithStatus(NewError("Error serializing error: "
                            \o "Converting circular structure to JSON"), 500)

ErrorOutput(statusCode, payload) ==
    [statusCode |-> statusCode,
     headers |-> ("Content-Type" :> "application/json"),
     body |-> JSONStringify("object", payload)]

RECURSIVE respondWithError(_, _)

\* Variant: no return after the fallback, the function goes on to write the
\* head and to end the response with the undefined json.
respondWithErrorFallThrough(error, r) ==
    LET e == NormalizeError(error)
        payload == ErrorPayload(e)
    IN IF ~Serializable(payload)
       THEN LET inner == respondWithError(SerializationError, r)
            IN [res |-> WriteResponse(inner.res,
                            [statusCode |-> e.statusCode,
                             headers |-> ("Content-Type" :> "application/json"),
                             body |-> NoBody]),
                calls |-> inner.calls + 1]
       ELSE [res |-> WriteResponse(r, ErrorOutput(e.statusCode, payload)),
             calls |-> 1]

\* respondWithError(error, res): the response after it, and the number of
\* calls of respondWithError it took.
respondWithError(error, r) ==
    LET e == NormalizeError(error)
        payload == ErrorPayload(e)
    IN IF ~Serializable(payload)
       THEN LET inner == respondWithError(SerializationError, r)
            IN [res |-> inner.res, calls |-> inner.calls + 1]
       ELSE [res |-> WriteResponse(r, ErrorOutput(e.statusCode, payload)),
             calls |-> 1]

\* String.prototype.trim on the header values of the model (spaces only).
RECURSIVE Trim(_)
Trim(str) ==
    IF Len(str) > 0 /\ SubSeq(str, 1, 1) = " "
    THEN Trim(SubSeq(str, 2, Len(str)))
    ELSE IF Len(str) > 0 /\ SubSeq(str, Len(str), Len(str)) = " "
    THEN Trim(SubSeq(str, 1, Len(str) - 1))
    ELSE str

LowerChar(c) ==
    CASE c = "B" -> "b" [] c = "E" -> "e" [] c = "A" -> "a" [] c = "R" -> "r"
      [] c = "S" -> "s" [] c = "I" -> "i" [] c = "C" -> "c"
      [] OTHER -> c

RECURSIVE ToLowerCase(_)
ToLowerCase(str) ==
    IF str = "" THEN ""
    ELSE LowerChar(SubSeq(str, 1, 1)) \o ToLowerCase(SubSeq(str, 2, Len(str)))

\* str.match(/^bearer (.+)$/i): null, or the match with its group 1.
BearerMatch(str) ==
    IF Len(str) >= 8 /\ ToLowerCase(SubSeq(str, 1, 7)) = "bearer "
    THEN [matched |-> TRUE, group1 |-> SubSeq(str, 8, Len(str))]
    ELSE [matched |-> FALSE, group1 |-> ""]

Unauthorized == WithStatus(NewError("Unauthorized extensibility point"), 403)

\* Variant: no return after next() on a match, the 403 follows.
authenticateFallThrough(r) ==
    LET ctx == r.webtaskContext
    IN IF "secrets" \in DOMAIN ctx
          /\ AUTH_SECRET_NAME \in DOMAIN ctx.secrets
          /\ ctx.secrets[AUTH_SECRET_NAME] # ""
       THEN LET match == BearerMatch(Trim(HeaderOr(ctx.headers, "authorization", "")))
            IN IF match.matched /\ match.group1 = ctx.secrets[AUTH_SECRET_NAME]
               THEN <<NoError, Unauthorized>>
               ELSE <<Unauthorized>>
       ELSE <<NoError>>

\* The authenticate middleware: the calls of next it makes, in order.
authenticate(r) ==
    LET ctx == r.webtaskContext
    IN IF "secrets" \in DOMAIN ctx
          /\ AUTH_SECRET_NAME \in DOMAIN ctx.secrets
          /\ ctx.secrets[AUTH_SECRET_NAME] # ""
       THEN LET match == BearerMatch(Trim(HeaderOr(ctx.headers, "authorization", "")))
            IN IF match.matched /\ match.group1 = ctx.secrets[AUTH_SECRET_NAME]
               THEN <<NoError>>
               ELSE <<Unauthorized>>
       ELSE <<NoError>>

\* Variant: the header value is matched without trim().
authenticateCronUntrimmed(r) ==
    LET ctx == r.webtaskContext
        match == BearerMatch(HeaderOr(r.headers, "authorization", ""))
    IN IF ~match.matched \/ match.group1 = ""
          \/ "token" \notin DOMAIN ctx \/ ctx.token = ""
          \/ ctx.token # match.group1
       THEN <<Unauthorized>>
       ELSE <<NoError>>

\* The cron authentication middleware: the calls of next it makes, in order.
authenticateCron(r) ==
    LET ctx == r.webtaskContext
        match == BearerMatch(Trim(HeaderOr(r.headers, "authorization", "")))
    IN IF ~match.matched \/ match.group1 = ""
          \/ "token" \notin DOMAIN ctx \/ ctx.token = ""
          \/ ctx.token # match.group1
       THEN <<Unauthorized>>
       ELSE <<NoError>>

\* Middleware specs: strings of the wt-middleware metadata, and the function
\* the pipeline pushes.
StringSpec(str) == [kind |-> "string", value |-> str, instance |-> 0]

\* The function DefaultMiddleware.create returns for the request number n.
DefaultMiddleware(n) ==
    [kind |-> "function", value |-> "defaultMiddleware", instance |-> n]

\* JavaScript values a module or an export can be: a middleware function, a
\* factory function that returns one, an object with exports, undefined.
Fn(name) == [kind |-> "function", name |-> name, exports |-> EmptyObject]
Factory(name) == [kind |-> "factory", name |-> name, exports |-> EmptyObject]
Object(exports) == [kind |-> "object", name |-> "", exports |-> exports]
UndefinedValue == [kind |-> "undefined", name |-> "", exports |-> EmptyObject]

\* The modules require() finds.
Installed ==
    ("webtask-hacks" :> Object(("authenticate" :> Fn("authenticate"))
                               @@ ("authenticateCron" :> Fn("authenticateCron"))))
        @@ ("custom-a" :> Fn("custom")) @@ ("custom-b" :> Fn("custom"))
        @@ ("m" :> Object(("make" :> Factory("custom"))))
        @@ ("@s/m" :> Object(("e" :> Fn("custom")) @@ ("make" :> Factory("custom"))))

\* The middleware lists compiler() builds from the wt-middleware metadata.
MiddlewareLists ==
    { <<>>,
      <<StringSpec("webtask-hacks/authenticate")>>,
      <<StringSpec("custom-a")>>,
      <<StringSpec("custom-a"), StringSpec("custom-b")>>,
      <<StringSpec("webtask-hacks/authenticate"), StringSpec("custom-a")>>,
      <<StringSpec("custom-a"), StringSpec("webtask-hacks/authenticate")>>,
      <<StringSpec("missing")>>,
      <<StringSpec("webtask-hacks/authenticateCron")>>,
      <<StringSpec("webtask-hacks/authenticateCron"), StringSpec("custom-a")>>,
      <<StringSpec("@s/m/make()")>>,
      <<StringSpec("webtask-hacks/nothing")>>,
      <<StringSpec("custom-a()")>>,
      <<StringSpec("custom-a"), StringSpec("missing"), StringSpec("custom-b")>> }

Drop(str, n) == SubSeq(str, n + 1, Len(str))

StartsWith(str, c) == Len(str) >= 1 /\ SubSeq(str, 1, 1) = c

\* Length of the longest prefix of str without a character of stop: [^...]*
RECURSIVE PrefixLen(_, _)
PrefixLen(str, stop) ==
    IF str = "" \/ SubSeq(str, 1, 1) \in stop THEN 0
    ELSE 1 + PrefixLen(Drop(str, 1), stop)

NoMatch == [matched |-> FALSE, g1 |-> "", g2 |-> "", g3 |-> ""]

\* Variant: the group of the export makes the `()` available without an
\* export name: /^(...)(?:\/([^/(]+))?(\(\))?$/
MatchSpecLooseCall(spec) ==
    LET a == PrefixLen(Drop(spec, 1), {"/", "("})
        afterScope == Drop(spec, 1 + a)
        b == PrefixLen(Drop(afterScope, 1), {"/", "("})
        g1len == IF StartsWith(spec, "@")
                 THEN IF a >= 1 /\ StartsWith(afterScope, "/") /\ b >= 1
                      THEN 1 + a + 1 + b ELSE 0
                 ELSE PrefixLen(spec, {"@", "/", "("})
        rest == Drop(spec, g1len)
        e == IF StartsWith(rest, "/") THEN PrefixLen(Drop(rest, 1), {"/", "("}) ELSE 0
        rest2 == IF e >= 1 THEN Drop(rest, 1 + e) ELSE rest
    IN IF g1len = 0 \/ rest2 \notin {"", "()"} THEN NoMatch
       ELSE [matched |-> TRUE, g1 |-> SubSeq(spec, 1, g1len),
             g2 |-> IF e >= 1 THEN SubSeq(rest, 2, 1 + e) ELSE "", g3 |-> rest2]

\* spec.match(MIDDLEWARE_SPEC_RX) for
\* /^(@[^/(]+\/[^/(]+|[^@/(]+)(?:\/([^/(]+)(\(\))?)?$/ : the groups, "" for a
\* group that did not take part. Each [^...]+ takes the longest run: the
\* character after it has to be `/`, `(` or the end.
MatchSpec(spec) ==
    LET a == PrefixLen(Drop(spec, 1), {"/", "("})
        afterScope == Drop(spec, 1 + a)
        b == PrefixLen(Drop(afterScope, 1), {"/", "("})
        g1len == IF StartsWith(spec, "@")
                 THEN IF a >= 1 /\ StartsWith(afterScope, "/") /\ b >= 1
                      THEN 1 + a + 1 + b ELSE 0
                 ELSE PrefixLen(spec, {"@", "/", "("})
        rest == Drop(spec, g1len)
        e == PrefixLen(Drop(rest, 1), {"/", "("})
        rest2 == Drop(rest, 1 + e)
    IN IF g1len = 0 THEN NoMatch
       ELSE IF rest = ""
       THEN [matched |-> TRUE, g1 |-> SubSeq(spec, 1, g1len), g2 |-> "", g3 |-> ""]
       ELSE IF StartsWith(rest, "/") /\ e >= 1 /\ rest2 \in {"", "()"}
       THEN [matched |-> TRUE, g1 |-> SubSeq(spec, 1, g1len),
             g2 |-> SubSeq(rest, 2, 1 + e), g3 |-> rest2]
       ELSE NoMatch

\* Util.parseMiddlewareSpecString(spec)
parseMiddlewareSpecString(spec) ==
    LET parsed(matches) ==
            IF ~matches.matched
            THEN [threw |-> TRUE,
                  exception |-> NewError("Failed to parse middleware spec: " \o spec),
                  moduleName |-> "",
                  exportName |-> [kind |-> "undefined", value |-> ""],
                  isFactoryFunction |-> FALSE]
            ELSE [threw |-> FALSE,
                  exception |-> NoError,
                  moduleName |-> matches.g1,
                  exportName |-> IF matches.g2 = ""
                                 THEN [kind |-> "undefined", value |-> ""]
                                 ELSE [kind |-> "string", value |-> matches.g2],
                  isFactoryFunction |-> matches.g3 # ""]
    IN parsed(MatchSpec(spec))

Resolved(fn) == [threw |-> FALSE, fn |-> fn, exception |-> NoError]
ResolveThrew(e) == [threw |-> TRUE, fn |-> "", exception |-> e]

\* Util.resolveCompiler(spec): the function itself, or the module or export
\* the spec string names, called when the spec says it is a factory. fn is
\* "undefined" when the result is no function.
resolveCompiler(spec) ==
    IF spec.kind = "function" THEN Resolved(spec.value)
    ELSE LET exported(parsedSpec, module) ==
                 IF parsedSpec.exportName.kind = "undefined" THEN module
                 ELSE IF parsedSpec.exportName.value \in DOMAIN module.exports
                 THEN module.exports[parsedSpec.exportName.value]
                 ELSE UndefinedValue
             result(parsedSpec, moduleExport) ==
                 IF parsedSpec.isFactoryFunction
                 THEN IF moduleExport.kind = "factory"
                      THEN Resolved(moduleExport.name)
                      ELSE IF moduleExport.kind = "function"
                      THEN \* a middleware called without arguments
                           ResolveThrew(NewError(
                               "Cannot read property 'webtaskContext' of undefined"))
                      ELSE ResolveThrew(NewError("moduleExport is not a function"))
                 ELSE IF moduleExport.kind = "function"
                 THEN Resolved(moduleExport.name)
                 ELSE IF moduleExport.kind = "factory"
                 THEN Resolved("factory")
                 ELSE Resolved("undefined")
             resolve(parsedSpec) ==
                 IF parsedSpec.threw THEN ResolveThrew(parsedSpec.exception)
                 ELSE IF parsedSpec.moduleName \notin DOMAIN Installed
                 THEN ResolveThrew([NewError("Cannot find module '"
                                                 \o parsedSpec.moduleName \o "'")
                                       EXCEPT !.code = "MODULE_NOT_FOUND"])
                 ELSE result(parsedSpec,
                             exported(parsedSpec, Installed[parsedSpec.moduleName]))
         IN resolve(parseMiddlewareSpecString(spec.value))

\* res after respondWithError(error, res), with the history entry.
Respond(st, error, via) ==
    LET answered(out) ==
            [st EXCEPT !.res = out.res,
                       !.written = Append(@, [via |-> via,
                                              call |-> Len(st.nextCalls),
                                              error |-> error,
                                              calls |-> out.calls,
                                              heads |-> out.res.headWrites - st.res.headWrites,
                                              ends |-> out.res.ends - st.res.ends,
                                              statusCode |-> out.res.statusCode,
                                              headers |-> out.res.headers,
                                              body |-> out.res.body])]
    IN answered(respondWithError(error, st.res))

\* The cached adapter runs the webtask function, which answers the request.
RunAdapter(st) ==
    LET out == [statusCode |-> 200,
                headers |-> ("Content-Type" :> "application/json"),
                body |-> JSONStringify("object", [data |-> "ok"])]
    IN [st EXCEPT !.res = WriteResponse(st.res, out),
                  !.written = Append(@, [via |-> "webtask",
                                         call |-> Len(st.nextCalls),
                                         error |-> NoError,
                                         calls |-> 0, heads |-> 1, ends |-> 1,
                                         statusCode |-> out.statusCode,
                                         headers |-> out.headers,
                                         body |-> out.body])]

\* Variant: a default middleware whose compilation is in progress does not
\* start another one.
defaultMiddlewareSingleFlight(st, instance) ==
    IF st.cache[instance]
    THEN RunAdapter(st)
    ELSE IF \E c \in DOMAIN st.compiles :
                st.compiles[c].instance = instance /\ st.compiles[c].state = "pending"
    THEN st
    ELSE [st EXCEPT !.compiles =
            Append(@, [instance |-> instance, request |-> st.request,
                       state |-> "pending"])]

\* defaultMiddleware of the given instance is invoked: it runs its cached
\* adapter, or calls nodejsCompiler(script, callback).
defaultMiddleware(st, instance) ==
    IF st.cache[instance]
    THEN RunAdapter(st)
    ELSE [st EXCEPT !.compiles =
            Append(@, [instance |-> instance, request |-> st.request,
                       state |-> "pending"])]

RECURSIVE invokeNextMiddleware(_, _, _, _, _)
RECURSIVE CallNext(_, _, _, _, _, _)

\* invokeNextMiddleware(error) on the pipeline state st of one request:
\* answer the error, or resolve and invoke the next middleware of specs
\* (`after` is the number of the call of next that invoked it, 0 for the
\* first). The
\* authenticate middleware calls next before it returns; `sync` tells whether
\* a custom middleware throws or returns when it is invoked.
invokeNextMiddleware(st, specs, r, error, sync) ==
    IF error # NoError
    THEN Respond(st, error, "next")
    ELSE IF st.idx >= Len(specs)
    THEN \* middlewareSpec is undefined: middlewareSpec.name throws
         [st EXCEPT !.pc = "crashed"]
    ELSE LET spec == specs[st.idx + 1]
             st1 == [st EXCEPT !.idx = @ + 1]
             invoke(fn, st2) ==
                 IF fn = "authenticate"
                 THEN CallNext(st2, specs, r, Len(st2.invoked), authenticate(r), sync)
                 ELSE IF fn = "authenticateCron"
                 THEN CallNext(st2, specs, r, Len(st2.invoked), authenticateCron(r), sync)
                 ELSE IF fn = "defaultMiddleware"
                 THEN defaultMiddleware(st2, spec.instance)
                 ELSE IF fn = "custom" /\ sync = "throw"
                 THEN Respond(st2, NewError("boom"), "throw")
                 ELSE st2
             load(resolved) ==
                 IF resolved.threw
                 THEN Respond(st1, resolved.exception, "load")
                 ELSE IF resolved.fn = "undefined"
                 THEN Respond(st1, NewError("middlewareFn is not a function"), "throw")
                 ELSE invoke(resolved.fn,
                             [st1 EXCEPT !.invoked =
                                 Append(@, [idx |-> st.idx, fn |-> resolved.fn,
                                            after |-> Len(st.nextCalls)])])
         IN load(resolveCompiler(spec))

\* Middleware number `by` of the request calls next with each of args in turn.
CallNext(st, specs, r, by, args, sync) ==
    IF args = <<>> \/ st.pc = "crashed" THEN st
    ELSE CallNext(invokeNextMiddleware(
                      [st EXCEPT !.nextCalls =
                          Append(@, [by |-> by, error |-> Head(args)])],
                      specs, r, Head(args), sync),
                  specs, r, by, Tail(args), sync)

\* The webtask context of a request: headers, and secrets when there are any.
AuthorizationValues ==
    { "Bearer s3", "bearer s3", "  BEARER s3 ", "Bearer  s3", "Basic s3",
      "Bearer other", "Bearer s3x", "Bearer", "s3" }

Contexts ==
    { h @@ sec :
        h \in { ("headers" :> ("authorization" :> a)) : a \in AuthorizationValues }
                \cup { ("headers" :> ("host" :> "wt.example")) },
        sec \in { ("secrets" :> x) :
                    x \in { EmptyObject, (AUTH_SECRET_NAME :> ""),
                            (AUTH_SECRET_NAME :> "s3") } }
                  \cup { EmptyObject } }

\* Contexts of a cron job: headers, and the webtask token when there is one.
CronContexts ==
    { h @@ tok :
        h \in { ("headers" :> ("authorization" :> a)) : a \in AuthorizationValues }
                \cup { ("headers" :> ("host" :> "wt.example")) },
        tok \in { ("token" :> x) : x \in {"", "s3", "other"} } \cup { EmptyObject } }

\* Contexts of the requests after the first: one that is let through and one
\* that is rejected.
LaterContexts ==
    { ("headers" :> ("authorization" :> a))
        @@ ("secrets" :> (AUTH_SECRET_NAME :> "s3")) @@ ("token" :> "s3") :
        a \in {"Bearer s3", "Bearer other"} }

\* Contexts for request number n that matter to the list: one when no
\* middleware reads the context.
ContextsFor(specs, n) ==
    LET has(str) == \E i \in DOMAIN specs : specs[i] = StringSpec(str)
    IN IF ~has("webtask-hacks/authenticate") /\ ~has("webtask-hacks/authenticateCron")
       THEN { ("headers" :> ("authorization" :> "Bearer s3")) }
       ELSE IF n > 1 THEN LaterContexts
       ELSE IF has("webtask-hacks/authenticate") THEN Contexts
       ELSE CronContexts

\* What the custom middleware of request number n pass to next.
NextArgsFor(n) ==
    IF n > 1 THEN {NoError, NewError("boom")} ELSE NextErrors \cup {NoError}

PipelineState ==
    [idx |-> nextMiddlewareIdx, invoked |-> invoked, nextCalls |-> nextCalls,
     res |-> res, written |-> written, pc |-> ppc, request |-> requestNo,
     cache |-> cache, compiles |-> compiles]

SetPipelineState(st) ==
    /\ nextMiddlewareIdx' = st.idx
    /\ invoked' = st.invoked
    /\ nextCalls' = st.nextCalls
    /\ res' = st.res
    /\ written' = st.written
    /\ ppc' = st.pc
    /\ compiles' = st.compiles

\* middlewarePipeline(ctx, req, res): a request arrives at the compiled
\* pipeline, possibly while the request before it is still being served (of
\* that one, only the compilations in progress are followed further).
middlewarePipeline(ctx, sync) ==
    /\ ppc \in {"idle", "running"}
    /\ requestNo < MaxRequests
    /\ LET specs == Append(middlewareSpecs, DefaultMiddleware(requestNo + 1))
           r == [method |-> "GET",
                 headers |-> ctx.headers,
                 webtaskContext |-> ("compiler" :> "compiler") @@ ctx]
       IN \E st \in {invokeNextMiddleware(
                        [idx |-> 0, invoked |-> <<>>, nextCalls |-> <<>>,
                         res |-> FreshRes, written |-> <<>>, pc |-> "running",
                         request |-> requestNo + 1, cache |-> Append(cache, FALSE),
                         compiles |-> compiles],
                        specs, r, NoError, sync)} :
          /\ sync = "throw" =>
                \E i \in DOMAIN st.invoked : st.invoked[i].fn = "custom"
          /\ middlewareSpecs' = specs
          /\ req' = r
          /\ requestNo' = requestNo + 1
          /\ cache' = Append(cache, FALSE)
          /\ SetPipelineState(st)
    /\ UNCHANGED <<sequence, pc, wreck, calls, results, completed, cbCalled,
                   memo, log, previous>>
    /\ UNCHANGED <<specParts, resolution>>
    /\ UNCHANGED compileVars

\* The TypeError of reading middlewareSpecs[nextMiddlewareIdx].name past the
\* end of the list.
IndexError == NewError("Cannot read property 'name' of undefined")

\* A custom middleware that was invoked calls next: next() or next(error).
\* When the call runs past the end of the list, the TypeError is caught by
\* the try around the middleware if the call is made while the middleware is
\* being invoked, and is an uncaught exception if it is made later.
MiddlewareCallsNext(k, arg, sync, caught) ==
    /\ ppc = "running"
    /\ k \in DOMAIN invoked
    /\ invoked[k].fn = "custom"
    /\ Len(nextCalls) + (requestNo - 1) < MaxNextCalls
    /\ \E st \in {CallNext(PipelineState, middlewareSpecs, req, k, <<arg>>, sync)} :
          /\ caught => st.pc = "crashed"
          /\ sync = "throw" =>
                \E i \in DOMAIN st.invoked :
                    i > Len(invoked) /\ st.invoked[i].fn = "custom"
          /\ SetPipelineState(IF caught
                              THEN Respond([st EXCEPT !.pc = "running"],
                                           IndexError, "overflow")
                              ELSE st)
    /\ UNCHANGED <<middlewareSpecs, req, requestNo, cache>>
    /\ UNCHANGED <<sequence, pc, wreck, calls, results, completed, cbCalled,
                   memo, log, previous>>
    /\ UNCHANGED <<specParts, resolution>>
    /\ UNCHANGED compileVars

\* A custom middleware that was invoked completes the response itself.
MiddlewareEndsResponse(k) ==
    /\ ppc = "running"
    /\ k \in DOMAIN invoked
    /\ invoked[k].fn = "custom"
    /\ \A w \in DOMAIN written : ~(written[w].via = "middleware" /\ written[w].call = k)
    /\ LET out == [statusCode |-> 200, headers |-> EmptyObject,
                   body |-> StreamBody("ok")]
       IN /\ res' = WriteResponse(res, out)
          /\ written' = Append(written,
                               [via |-> "middleware", call |-> k, error |-> NoError,
                                calls |-> 0, heads |-> 1, ends |-> 1,
                                statusCode |-> 200,
                                headers |-> EmptyObject, body |-> out.body])
    /\ UNCHANGED <<middlewareSpecs, nextMiddlewareIdx, ppc, invoked, nextCalls, req>>
    /\ UNCHANGED <<sequence, pc, wreck, calls, results, completed, cbCalled,
                   memo, log, previous>>
    /\ UNCHANGED <<requestNo, cache, compiles, specParts, resolution>>
    /\ UNCHANGED compileVars

CompileError == NewError("Unexpected token")

\* nodejsCompiler calls back the default middleware that started compilation
\* number c: on success the adapter is cached and run, on an error the request
\* is answered with it.
defaultCompileCallback(c, ok) ==
    /\ ppc \in {"idle", "running"}
    /\ c \in DOMAIN compiles
    /\ compiles[c].state = "pending"
    /\ LET current == compiles[c].request = requestNo /\ ppc = "running"
           st0 == [PipelineState EXCEPT
                      !.compiles[c].state = IF ok THEN "ok" ELSE "failed",
                      !.cache = IF ok THEN [cache EXCEPT ![compiles[c].instance] = TRUE]
                                ELSE cache]
           st == IF ~current THEN st0
                 ELSE IF ok THEN RunAdapter(st0)
                 ELSE Respond(st0, CompileError, "compile")
       IN /\ SetPipelineState(st)
          /\ cache' = st.cache
    /\ UNCHANGED <<middlewareSpecs, req, requestNo>>
    /\ UNCHANGED <<sequence, pc, wreck, calls, results, completed, cbCalled,
                   memo, log, previous>>
    /\ UNCHANGED <<specParts, resolution>>
    /\ UNCHANGED compileVars

\* A pipeline compiled from the wt-middleware metadata, before its first request.
PipelineInit ==
    /\ middlewareSpecs \in MiddlewareLists
    /\ nextMiddlewareIdx = 0
    /\ ppc = "idle"
    /\ invoked = <<>>
    /\ nextCalls = <<>>
    /\ written = <<>>
    /\ requestNo = 0
    /\ cache = <<>>
    /\ compiles = <<>>
    /\ specParts = Undefined
    /\ resolution = Undefined
    /\ req = Undefined
    /\ res = FreshRes
    /\ sequence = Undefined
    /\ pc = "idle"
    /\ wreck = Undefined
    /\ calls = <<>>
    /\ results = <<>>
    /\ completed = 0
    /\ cbCalled = FALSE
    /\ memo = Undefined
    /\ log = <<>>
    /\ previous = Undefined
    /\ script = TextScript("module.exports = workflow;")
    /\ cpc = "start"
    /\ stages = <<>>
    /\ candidate = Undefined
    /\ compilerCalls = 0
    /\ cbCalls = <<>>
    /\ nextCalled = FALSE
    /\ thrown = NoError
    /\ compiled = NoOutcome

PipelineNext ==
    \/ \E ctx \in ContextsFor(middlewareSpecs, requestNo + 1) :
          \E sync \in {"return", "throw"} : middlewarePipeline(ctx, sync)
    \/ \E k \in DOMAIN invoked : \E arg \in NextArgsFor(requestNo) :
          \E sync \in {"return", "throw"} : \E caught \in BOOLEAN :
              MiddlewareCallsNext(k, arg, sync, caught)
    \/ \E k \in DOMAIN invoked : MiddlewareEndsResponse(k)
    \/ \E c \in DOMAIN compiles : \E ok \in BOOLEAN : defaultCompileCallback(c, ok)

SpecMiddleware == PipelineInit /\ [][PipelineNext]_vars

-----------------------------------------------------------------------------
(* Resolution of a middleware spec string: src/lib/util.js *)

\* Spec strings by their pieces: an optional scope, a module name (none for a
\* bare scope), an optional export name and an optional `()`.
SpecParts ==
    { [scope |-> sc, module |-> mo, exportName |-> ex, call |-> ca] :
        sc \in {"", "s", "sencha"},
        mo \in {"", "m", "custom-a", "webtask-hacks"},
        ex \in {"", "e", "authenticate", "make"},
        ca \in {"", "()"} }
      \ { [scope |-> sc, module |-> "", exportName |-> ex, call |-> ca] :
            sc \in {"", "s", "sencha"}, ex \in {"e", "authenticate", "make"},
            ca \in {"", "()"} }

\* The spec string with these pieces.
SpecString(parts) ==
    (IF parts.scope # "" THEN "@" \o parts.scope ELSE "")
        \o (IF parts.scope # "" /\ parts.module # "" THEN "/" ELSE "")
        \o parts.module
        \o (IF parts.exportName # "" THEN "/" \o parts.exportName ELSE "")
        \o parts.call

\* Util.resolveCompiler(spec) on the spec string.
resolveSpecString ==
    /\ specParts # Undefined
    /\ resolution = Undefined
    /\ resolution' =
          [parsed |-> parseMiddlewareSpecString(SpecString(specParts)),
           resolved |-> resolveCompiler(StringSpec(SpecString(specParts)))]
    /\ UNCHANGED <<middlewareSpecs, nextMiddlewareIdx, ppc, invoked, nextCalls,
                   written, requestNo, cache, compiles, specParts>>
    /\ UNCHANGED <<sequence, pc, req, wreck, calls, results, completed, cbCalled,
                   memo, res, log, previous>>
    /\ UNCHANGED compileVars

ParseInit ==
    /\ middlewareSpecs = <<>>
    /\ nextMiddlewareIdx = 0
    /\ ppc = "idle"
    /\ invoked = <<>>
    /\ nextCalls = <<>>
    /\ written = <<>>
    /\ requestNo = 0
    /\ cache = <<>>
    /\ compiles = <<>>
    /\ specParts \in SpecParts
    /\ resolution = Undefined
    /\ req = Undefined
    /\ res = FreshRes
    /\ sequence = Undefined
    /\ pc = "idle"
    /\ wreck = Undefined
    /\ calls = <<>>
    /\ results = <<>>
    /\ completed = 0
    /\ cbCalled = FALSE
    /\ memo = Undefined
    /\ log = <<>>
    /\ previous = Undefined
    /\ script = TextScript("module.exports = workflow;")
    /\ cpc = "start"
    /\ stages = <<>>
    /\ candidate = Undefined
    /\ compilerCalls = 0
    /\ cbCalls = <<>>
    /\ nextCalled = FALSE
    /\ thrown = NoError
    /\ compiled = NoOutcome

ParseNext == resolveSpecString

SpecParse == ParseInit /\ [][ParseNext]_vars

-----------------------------------------------------------------------------
TypeOK ==
    /\ pc \in {"idle", "running", "done", "thrown"}
    /\ DOMAIN calls = 1..N
    /\ \A i \in DOMAIN calls : calls[i].state \in {"pending", "inflight", "done"}
    /\ res.headWrites \in 0..2
    /\ completed \in 0..N

-----------------------------------------------------------------------------
(* Vocabulary of the properties *)

IsFanout == sequence.type = "fanout"
IsSequence == sequence.type = "sequence"

\* The executor was invoked and built its HTTP client.
Started == pc \in {"running", "done"} /\ wreck # Undefined /\ ~wreck.threw

Completed(i) == calls[i].state = "done"

Done200(i) ==
    /\ calls[i].state = "done"
    /\ calls[i].outcome.kind = "response"
    /\ calls[i].outcome.response.statusCode = 200

Failed(i) == calls[i].state = "done" /\ ~Done200(i)

TransportFailed(i) == calls[i].state = "done" /\ calls[i].outcome.kind = "error"

\* The status code node i was observed to answer with (for a transport
\* error, the status of the error).
ObservedStatus(i) ==
    IF calls[i].outcome.kind = "error"
    THEN calls[i].outcome.error.output.statusCode
    ELSE calls[i].outcome.response.statusCode

OneResponseWritten == res.headWrites = 1 /\ res.ends = 1

\* Position of an event in the history, 0 when absent.
FirstPos(e) ==
    IF \E k \in DOMAIN log : log[k] = e
    THEN CHOOSE k \in DOMAIN log : log[k] = e /\ \A l \in 1..(k - 1) : log[l] # e
    ELSE 0

Count(e) == Cardinality({ k \in DOMAIN log : log[k] = e })

StrippedHeaderNames ==
    { "accept-version", "connection", "content-length", "host",
      "x-forwarded-for", "x-forwarded-port", "x-forwarded-proto", "x-wt-params" }

Forwarded(h) == [k \in (DOMAIN h) \ StrippedHeaderNames |-> h[k]]

-----------------------------------------------------------------------------
(* Fan-out *)

\* C1: when a fan-out executor has been invoked on a definition with N nodes
\* and every one of the N calls completed with status 200, exactly one
\* response has been written, its status is 200 and its payload is an array
\* of exactly N entries, entry i being the summary of node i's response.
C1_FanoutAllOk ==
    (IsFanout /\ Started /\ \A i \in 1..N : Done200(i)) =>
        /\ OneResponseWritten
        /\ res.statusCode = 200
        /\ res.body.type = "array"
        /\ Len(res.body.value) = N
        /\ \A i \in 1..N :
            LET entry == res.body.value[i]
                response == calls[i].outcome.response
            IN /\ entry.statusCode = response.statusCode
               /\ entry.statusMessage = response.statusMessage
               /\ entry.headers = response.headers

C1_Witness ==
    /\ IsFanout /\ Started /\ N >= 2
    /\ \A i \in 1..N : Done200(i)
    /\ calls[1].outcome # calls[2].outcome
    /\ res.statusCode = 200

\* C2 (as claimed): once every call of a fan-out run has an outcome and at
\* least one of them is a non-200 status or a transport failure, the response
\* status is 502 and the payload is an array with one entry per node, each
\* carrying that node's own observed status code.
C2_FanoutAnyFailure502 ==
    (IsFanout /\ Started /\ (\A i \in 1..N : Completed(i))
              /\ (\E i \in 1..N : Failed(i))) =>
        /\ res.statusCode = 502
        /\ res.body.type = "array"
        /\ Len(res.body.value) = N
        /\ \A i \in 1..N : res.body.value[i].statusCode = ObservedStatus(i)

\* C3 (as claimed): the fan-out response is written only when every node's
\* call has produced an outcome; it is never written while a call is still
\* in flight.
C3_FanoutBarrier ==
    (IsFanout /\ res.ends > 0) => \A i \in 1..N : Completed(i)

\* C4: whenever the fan-out executor has written the aggregate array, entry i
\* of the array is the summary of node i's response, whatever the order in
\* which the calls completed.
C4_FanoutOrderByIndex ==
    (IsFanout /\ res.body.type = "array") =>
        /\ Len(res.body.value) = N
        /\ \A i \in 1..N :
            /\ calls[i].outcome.kind = "response"
            /\ res.body.value[i].statusCode = calls[i].outcome.response.statusCode
            /\ res.body.value[i].headers = calls[i].outcome.response.headers
            /\ res.body.value[i].statusMessage
                  = calls[i].outcome.response.statusMessage

\* the last node completed first, with a different response
C4_Witness ==
    /\ IsFanout /\ N >= 2
    /\ res.body.type = "array"
    /\ FirstPos(Event("outcome", N)) < FirstPos(Event("outcome", 1))
    /\ calls[1].outcome.response.statusCode # calls[N].outcome.response.statusCode

\* C5: an invoked fan-out executor has started exactly one call per node, all
\* of them before any outcome was processed; every call carries the inbound
\* request as payload and the same forwarded headers (the inbound headers
\* without the stripped ones).
C5_FanoutDispatch ==
    (IsFanout /\ Started) =>
        /\ \A i \in 1..N : calls[i].state # "pending"
        /\ \A i \in 1..N :
            /\ Count(Event("dispatch", i)) = 1
            /\ calls[i].request.options.payload = req
            /\ calls[i].request.options.headers = Forwarded(req.headers)
            /\ \A j \in 1..N : calls[i].request.options.headers
                                  = calls[j].request.options.headers
        /\ \A k \in DOMAIN log : \A l \in DOMAIN log :
            (log[k].ev = "dispatch" /\ log[l].ev = "outcome") => k < l

C5_Witness ==
    /\ IsFanout /\ Started /\ N >= 2
    /\ \A i \in 1..N : Completed(i)
    /\ "content-length" \in DOMAIN req.headers

\* C6: in fan-out, processing the outcome of one call leaves every other call
\* as it was: a call in flight stays in flight with its request unchanged
\* until its own outcome arrives, also when the outcome processed is a failure.
C6_FanoutNoCancel ==
    [][IsFanout =>
        \A i \in DOMAIN calls :
            calls[i].state = "inflight" =>
                \/ calls'[i] = calls[i]
                \/ /\ calls'[i].state = "done"
                   /\ calls'[i].request = calls[i].request
                   /\ \A j \in DOMAIN calls : j # i => calls'[j] = calls[j]]_vars

\* a call failed first, and a sibling that was in flight then completed with
\* its own 200 response
C6_Witness ==
    /\ IsFanout /\ N >= 2
    /\ \E i \in 1..N : \E j \in 1..N :
        /\ i # j
        /\ TransportFailed(i)
        /\ Done200(j)
        /\ FirstPos(Event("outcome", i)) < FirstPos(Event("outcome", j))

-----------------------------------------------------------------------------
(* Sequence *)

\* C7: when every step of a sequence run returned status 200, one response
\* has been written, with the status code and the headers of the last node's
\* response unchanged and its body passed through.
C7_SequencePassThrough ==
    (IsSequence /\ Started /\ N >= 1 /\ \A i \in 1..N : Done200(i)) =>
        LET last == calls[N].outcome.response
        IN /\ OneResponseWritten
           /\ res.statusCode = last.statusCode
           /\ res.headers = last.headers
           /\ res.body = last.body

C7_Witness ==
    /\ IsSequence /\ Started /\ N >= 2
    /\ \A i \in 1..N : Done200(i)
    /\ "content-length" \in DOMAIN calls[N].outcome.response.headers
    /\ calls[1].outcome # calls[N].outcome
    /\ pc = "done"

\* The status of the failure a sequence step's outcome is classified as.
FailureStatus(o) ==
    IF o.kind = "error" THEN o.error.output.statusCode
    ELSE IF o.response.statusCode >= 400 THEN o.response.statusCode
    ELSE 500

\* C8: when step k of a sequence run failed (transport error or non-200
\* status), no call was made for any later step, and the response written
\* carries the status of step k's failure.
C8_SequenceShortCircuit ==
    IsSequence =>
        \A k \in 1..N :
            Failed(k) =>
                /\ \A j \in (k + 1)..N :
                    /\ calls[j].state = "pending"
                    /\ Count(Event("dispatch", j)) = 0
                /\ OneResponseWritten
                /\ res.statusCode = FailureStatus(calls[k].outcome)

C8_Witness ==
    /\ IsSequence /\ N >= 2
    /\ Failed(1)
    /\ calls[1].outcome.kind = "response"
    /\ calls[1].outcome.response.statusCode = 404
    /\ calls[2].state = "pending"
    /\ pc = "done"

\* C9: in a sequence run at most one call is in flight, node i+1 is called
\* only after the outcome of node i is known, and the calls are started in
\* definition order.
C9_SequenceOneAtATime ==
    IsSequence =>
        /\ Cardinality({ i \in 1..N : calls[i].state = "inflight" }) <= 1
        /\ \A i \in 1..N :
            (i > 1 /\ calls[i].state # "pending") =>
                /\ Completed(i - 1)
                /\ FirstPos(Event("outcome", i - 1)) > 0
                /\ FirstPos(Event("outcome", i - 1)) < FirstPos(Event("dispatch", i))
        /\ \A k \in DOMAIN log : \A l \in DOMAIN log :
            (k < l /\ log[k].ev = "dispatch" /\ log[l].ev = "dispatch")
                => log[k].idx < log[l].idx

C9_Witness ==
    /\ IsSequence /\ N >= 2
    /\ Completed(1)
    /\ calls[2].state = "inflight"

\* C10: in a sequence run the payload of the first call is the inbound
\* request and the payload of the call for node i+1 is the response of node i;
\* the headers sent are the payload's headers without the stripped ones.
C10_SequenceChaining ==
    (IsSequence /\ Started) =>
        \A i \in 1..N :
            calls[i].state # "pending" =>
                LET source == IF i = 1 THEN req ELSE calls[i - 1].outcome.response
                IN /\ i > 1 => calls[i - 1].outcome.kind = "response"
                   /\ calls[i].request.options.payload = source
                   /\ calls[i].request.options.headers = Forwarded(source.headers)

C10_Witness ==
    /\ IsSequence /\ Started /\ N >= 2
    /\ calls[2].state # "pending"
    /\ calls[2].request.options.payload # req
    /\ "content-length" \in DOMAIN calls[1].outcome.response.headers
    /\ "content-length" \notin DOMAIN calls[2].request.options.headers

-----------------------------------------------------------------------------
(* Failures *)

RespondedWith(i, statuses) ==
    /\ calls[i].state = "done"
    /\ calls[i].outcome.kind = "response"
    /\ calls[i].outcome.response.statusCode \in statuses

\* C11: when a step of a sequence run answered with a status >= 400, the
\* chain is over (no later step was called) and the one response written has
\* that same status code, on the status line and in the JSON error body.
C11_SequenceHttpError ==
    IsSequence =>
        \A k \in 1..N :
            RespondedWith(k, 400..599) =>
                /\ pc = "done"
                /\ \A j \in (k + 1)..N : calls[j].state = "pending"
                /\ OneResponseWritten
                /\ res.statusCode = calls[k].outcome.response.statusCode
                /\ res.body.type = "object"
                /\ res.body.value.statusCode = calls[k].outcome.response.statusCode

C11_Witness ==
    /\ IsSequence /\ N >= 2
    /\ Done200(1)
    /\ calls[2].state = "done"
    /\ calls[2].outcome.kind = "response"
    /\ calls[2].outcome.response.statusCode = 404
    /\ res.statusCode = 404

\* C12 (as claimed): in any executor, once a call has answered with a status
\* in [200,400) other than 200 and the response is written, the response has
\* status 500 and the original status appears nowhere in it.
C12_Non200Is500Everywhere ==
    \A i \in 1..N :
        (RespondedWith(i, (200..399) \ {200}) /\ res.ends > 0) =>
            /\ res.statusCode = 500
            /\ res.body.type = "object"
            /\ res.body.value.statusCode = 500

\* C12 (amended): in a sequence run, once a call has answered with a status
\* in [200,400) other than 200, the run has ended with one response of
\* status 500 whose body is the generic internal-error object: the original
\* status is not forwarded.
C12_SequenceNon200Is500 ==
    IsSequence =>
        \A i \in 1..N :
            RespondedWith(i, (200..399) \ {200}) =>
                /\ pc = "done"
                /\ OneResponseWritten
                /\ res.statusCode = 500
                /\ res.body.type = "object"
                /\ res.body.value.statusCode = 500
                /\ res.body.value.message = "An internal server error occurred"

C12_Witness ==
    /\ IsSequence /\ N >= 1
    /\ RespondedWith(1, {302})
    /\ res.statusCode = 500

\* C13 (as claimed): no invocation of an executor (here: one bound to a
\* definition with at least one node) ends with an exception and no response
\* written, whatever the inbound request is.
C13_NeverUnanswered ==
    (N >= 1 /\ pc = "thrown") => res.ends >= 1

RecognizedFormats == {USE_SHARED_DOMAIN, USE_CUSTOM_DOMAIN, USE_WILDCARD_DOMAIN}

\* C14: when the executor is invoked with a request whose addressing-mode
\* flag is none of the three recognized values, the invocation has failed
\* with an 'Unexpected url format' error and no call was made for any node.
C14_UnknownUrlFormat ==
    (pc # "idle" /\ req.x_wt.url_format \notin RecognizedFormats) =>
        /\ pc = "thrown"
        /\ wreck.threw
        /\ wreck.message = "Unexpected url format: " \o ToString(req.x_wt.url_format)
        /\ \A i \in 1..N : calls[i].state = "pending"
        /\ log = <<>>

C14_Witness ==
    /\ pc = "thrown"
    /\ N >= 2
    /\ req.x_wt.url_format \notin RecognizedFormats
    /\ wreck.threw

-----------------------------------------------------------------------------
(* Compile pipeline properties (checked under SpecCompile) *)

CompileEnded == cpc \in {"done", "thrown"}

\* The script is a definition object or JSON text of one.
DenotesDefinition ==
    /\ ~Falsy(script)
    /\ script.kind = "object" \/ JSONParse(script.text).ok

Denoted == IF script.kind = "object" THEN script.value ELSE JSONParse(script.text).value

ExecutorProduced == \E k \in DOMAIN cbCalls : cbCalls[k].fn # Undefined

IsValidationError(e) ==
    /\ e # NoError
    /\ "output" \in DOMAIN e
    /\ e.output.statusCode = 500
    /\ \E c \in Candidates :
        /\ SchemaError(c) # ""
        /\ e.message = "Invalid webtask workflow: " \o SchemaError(c)
                            \o ": " \o SchemaError(c)

\* C15 (as claimed): once a definition whose type is missing or is a string
\* other than fanout and sequence has been compiled, the compile callback has
\* been called once, with a validation error and no executor.
C15_BadTypeFailsValidation ==
    (cpc # "start" /\ DenotesDefinition
        /\ ("type" \notin DOMAIN Denoted \/ Denoted.type \notin ExecutorTypes)) =>
        /\ cpc = "done"
        /\ Len(cbCalls) = 1
        /\ IsValidationError(cbCalls[1].error)
        /\ cbCalls[1].fn = Undefined

\* C16 (as claimed): no executor is ever bound to a definition with zero
\* nodes: the compile callback never receives an executor whose definition
\* has an empty node list.
C16_NoExecutorForZeroNodes ==
    \A k \in DOMAIN cbCalls :
        cbCalls[k].fn # Undefined => Len(cbCalls[k].fn.sequence.nodes) >= 1

BadNode(n) == "name" \notin DOMAIN n \/ n.name = ""

\* C17: once a definition in which some node has no name or an empty name has
\* been handed to validation, the compile callback has been called once with
\* a status-500 error whose message starts with 'Invalid webtask workflow:'
\* and without an executor; createCompiler did not run.
C17_BadNodeFailsValidation ==
    (candidate # Undefined /\ "nodes" \in DOMAIN candidate
        /\ \E i \in 1..Len(candidate.nodes) : BadNode(candidate.nodes[i])) =>
        /\ cpc = "done"
        /\ Len(cbCalls) = 1
        /\ IsValidationError(cbCalls[1].error)
        /\ cbCalls[1].fn = Undefined
        /\ ~ExecutorProduced
        /\ sequence = Undefined
        /\ \A k \in DOMAIN stages : stages[k] # "createCompiler"

C17_Witness ==
    /\ cpc = "done"
    /\ candidate # Undefined
    /\ "type" \in DOMAIN candidate /\ candidate.type \in ExecutorTypes
    /\ "nodes" \in DOMAIN candidate
    /\ Len(candidate.nodes) = 2
    /\ ~BadNode(candidate.nodes[1])
    /\ BadNode(candidate.nodes[2])
    /\ Len(cbCalls) = 1

\* C18 (as claimed): once a run of the compile pipeline is over, the compile
\* callback has been called exactly once: with the error of the stage that
\* failed and no executor, or with no error and an executor.
C18_CallbackExactlyOnce ==
    CompileEnded =>
        /\ Len(cbCalls) = 1
        /\ (cbCalls[1].error # NoError) <=> (cbCalls[1].fn = Undefined)

\* C19: once an empty or absent script has been compiled, the compile
\* callback has been called once with the empty-webtask error, the compile
\* capability was not invoked and validation did not run.
C19_EmptyScript ==
    (cpc # "start" /\ Falsy(script)) =>
        /\ cpc = "done"
        /\ cbCalls = <<CallbackCall(EmptyScriptError, Undefined)>>
        /\ compilerCalls = 0
        /\ stages = <<"compileScript">>
        /\ candidate = Undefined

C19_Witness ==
    /\ cpc = "done"
    /\ script = TextScript("")
    /\ Len(cbCalls) = 1

\* C20 (as claimed): once a non-empty script has been compiled, the compile
\* capability has been invoked if and only if the script is text that does
\* not parse as JSON; otherwise the object or the parsed value is the
\* candidate handed to validation.
C20_CompilerOnlyForNonJson ==
    (cpc # "start" /\ ~Falsy(script)) =>
        /\ (compilerCalls > 0) <=> ~DenotesDefinition
        /\ DenotesDefinition => candidate = Denoted

\* The script is text that JSON.parse rejects.
IsCode == script.kind = "text" /\ script.text # "" /\ ~JSONParse(script.text).ok

\* C21 (as claimed): once the compile capability has reported an error for a
\* script that is not JSON, the compile callback has been called once, with
\* no executor and with an error whose message is the fixed prefix followed
\* by the cause's message.
C21_CompileErrorWrapped ==
    (CompileEnded /\ IsCode /\ compiled.kind = "error") =>
        /\ Len(cbCalls) = 1
        /\ cbCalls[1].fn = Undefined
        /\ cbCalls[1].error =
              ErrorOf("Invalid compound webtask: error compiling sequence code: "
                        \o compiled.message)

-----------------------------------------------------------------------------
(* Repeated invocation (checked under SpecRepeat) *)

SameOutcomes(cs, ds) ==
    /\ DOMAIN cs = DOMAIN ds
    /\ \A i \in DOMAIN cs :
        /\ cs[i].state = ds[i].state
        /\ cs[i].outcome = ds[i].outcome

Settled(cs) == \A i \in DOMAIN cs : cs[i].state # "inflight"

\* C23 (as claimed): when an invocation of an executor has ended with the
\* same inbound request and the same outcome for every node's call as the
\* invocation before it, the two responses are equal, and the compile
\* pipeline has run once only (no stage, compile-capability call or compile
\* callback was added by the invocations).
C23_RepeatSameResponse ==
    (/\ previous # Undefined
     /\ pc = "done" /\ previous.pc = "done"
     /\ req = previous.req
     /\ Settled(calls) /\ Settled(previous.calls)
     /\ SameOutcomes(calls, previous.calls)) =>
        /\ res = previous.res
        /\ stages = <<"compileScript", "validateSchema", "createCompiler">>
        /\ compilerCalls = 0
        /\ Len(cbCalls) = 1

\* C26: running an executor leaves the definition it is bound to as it was
\* after validation: in every state, after any number of invocations, the
\* definition (type, node list, fields of every node) equals the candidate
\* that passed validation and the definition the executor was created with.
C26_DefinitionUnchanged ==
    /\ sequence = candidate
    /\ sequence = cbCalls[1].fn.sequence

C26_Witness ==
    /\ previous # Undefined
    /\ previous.pc = "done"
    /\ Settled(previous.calls)
    /\ pc = "done"
    /\ N >= 2
    /\ \A i \in 1..N : Completed(i)

-----------------------------------------------------------------------------
(* Forwarded headers *)

\* What the headers of the call for node i were computed from: the inbound
\* request, or in a sequence the response of the node before.
HeaderSource(i) ==
    IF IsFanout \/ i = 1 THEN req ELSE calls[i - 1].outcome.response

-----------------------------------------------------------------------------
(* Failure responses *)

IsErrorObject(body) ==
    /\ body.type = "object"
    /\ {"statusCode", "message"} \subseteq DOMAIN body.value

FirstDone(P(_)) ==
    CHOOSE i \in 1..N :
        /\ P(i)
        /\ \A j \in 1..N :
            P(j) => FirstPos(Event("outcome", i)) <= FirstPos(Event("outcome", j))

-----------------------------------------------------------------------------
(* The authenticate middleware *)

CallsBy(k) == SelectSeq(nextCalls, LAMBDA c : c.by = k)

\* Authorization header values whose bearer token is the secret "s3".
BearerS3 == {"Bearer s3", "bearer s3", "  BEARER s3 "}

\* The request's context has no wt-auth-secret (an empty secret counts as
\* none), or its Authorization header carries the secret as bearer token.
MayPass ==
    LET ctx == req.webtaskContext
    IN \/ "secrets" \notin DOMAIN ctx
       \/ AUTH_SECRET_NAME \notin DOMAIN ctx.secrets
       \/ ctx.secrets[AUTH_SECRET_NAME] = ""
       \/ /\ ctx.secrets[AUTH_SECRET_NAME] = "s3"
          /\ "authorization" \in DOMAIN ctx.headers
          /\ ctx.headers["authorization"] \in BearerS3

\* C30: every invocation of the authenticate middleware calls next exactly
\* once: without error when no wt-auth-secret is configured or the bearer
\* token of the Authorization header equals it, and otherwise (header missing,
\* malformed, or a different token) with an Error whose statusCode is 403.
C30_AuthenticateCallsNextOnce ==
    \A k \in DOMAIN invoked :
        invoked[k].fn = "authenticate" =>
            /\ Len(CallsBy(k)) = 1
            /\ IF MayPass
               THEN CallsBy(k)[1].error = NoError
               ELSE /\ CallsBy(k)[1].error # NoError
                    /\ CallsBy(k)[1].error.isError
                    /\ CallsBy(k)[1].error.statusCode = 403

\* A configured secret and a different bearer token: next got the 403 and the
\* pipeline answered it.
C30_Witness ==
    /\ \E k \in DOMAIN invoked : invoked[k].fn = "authenticate"
    /\ "secrets" \in DOMAIN req.webtaskContext
    /\ req.webtaskContext.secrets = (AUTH_SECRET_NAME :> "s3")
    /\ req.webtaskContext.headers = ("authorization" :> "Bearer other")
    /\ nextCalls = <<[by |-> 1, error |-> Unauthorized]>>
    /\ res.statusCode = 403

\* An accepted token lets the request through to the next middleware.
C30_WitnessPass ==
    /\ req # Undefined
    /\ "secrets" \in DOMAIN req.webtaskContext
    /\ req.webtaskContext.secrets = (AUTH_SECRET_NAME :> "s3")
    /\ req.webtaskContext.headers = ("authorization" :> "  BEARER s3 ")
    /\ Len(invoked) = 2
    /\ invoked[1].fn = "authenticate"
    /\ nextCalls = <<[by |-> 1, error |-> NoError]>>

-----------------------------------------------------------------------------
(* respondWithError *)

\* The answers respondWithError wrote for an error whose data is circular.
Unserializable(w) ==
    /\ w.error # NoError
    /\ w.error.isError
    /\ w.error.data.kind = "circular"

\* C29: when the payload of an error cannot be serialized, respondWithError
\* answers with a synthesized 500 whose message describes the serialization
\* failure; it writes exactly one response and takes one recursive call.
C29_SerializationFallback ==
    \A i \in DOMAIN written :
        Unserializable(written[i]) =>
            /\ written[i].statusCode = 500
            /\ written[i].body.type = "object"
            /\ written[i].body.value.statusCode = 500
            /\ written[i].body.value.message
                    = "Error serializing error: Converting circular structure to JSON"
            /\ "data" \notin DOMAIN written[i].body.value
            /\ written[i].heads = 1
            /\ written[i].ends = 1
            /\ written[i].calls = 2

C29_Witness ==
    \E i \in DOMAIN written :
        /\ Unserializable(written[i])
        /\ written[i].error.statusCode = 400
        /\ written[i].statusCode = 500
        /\ res.headWrites = 1

\* The answers the pipeline wrote for the call number j of next.
AnswersTo(j) ==
    { i \in DOMAIN written : written[i].via = "next" /\ written[i].call = j }

IsJsonErrorAnswer(w) ==
    /\ w.heads = 1
    /\ w.ends = 1
    /\ w.headers = ("Content-Type" :> "application/json")
    /\ w.body.type = "object"
    /\ w.body.value.statusCode = w.statusCode

StatusOr500(e) == IF e.statusCode # 0 THEN e.statusCode ELSE 500

\* C28 (as claimed): every call next(error) is answered with exactly one JSON
\* error response whose status is the error's statusCode when it has one and
\* 500 otherwise, and whose body carries that statusCode and the error's
\* message.
C28_ErrorAnswerAsClaimed ==
    \A j \in DOMAIN nextCalls :
        nextCalls[j].error # NoError =>
            /\ Cardinality(AnswersTo(j)) = 1
            /\ \A i \in AnswersTo(j) :
                  /\ IsJsonErrorAnswer(written[i])
                  /\ written[i].statusCode = StatusOr500(nextCalls[j].error)
                  /\ written[i].body.value.message = nextCalls[j].error.message

\* C28 (amended): every call next(error) is answered with exactly one JSON
\* error response whose body carries the status written. For an Error whose
\* payload serializes, the status is its statusCode when it has one and 500
\* otherwise and the message is its message; a value that is no Error is
\* answered 500 with its message or string form, whatever statusCode it has;
\* an Error whose payload does not serialize is answered with the 500 of the
\* serialization failure.
C28_ErrorAnswerPerCall ==
    \A j \in DOMAIN nextCalls :
        nextCalls[j].error # NoError =>
            /\ Cardinality(AnswersTo(j)) = 1
            /\ \A i \in AnswersTo(j) :
                  LET e == nextCalls[j].error
                      w == written[i]
                  IN /\ IsJsonErrorAnswer(w)
                     /\ IF ~e.isError
                        THEN /\ w.statusCode = 500
                             /\ w.body.value.message
                                    = (IF e.message # "" THEN e.message ELSE e.text)
                        ELSE IF e.data.kind = "circular"
                        THEN /\ w.statusCode = 500
                             /\ w.body.value.message = SerializationError.message
                        ELSE /\ w.statusCode = StatusOr500(e)
                             /\ w.body.value.message = e.message

\* An Error with statusCode 418 passed to next was answered 418.
C28_Witness ==
    \E j \in DOMAIN nextCalls :
        /\ nextCalls[j].error = WithStatus(NewError("teapot"), 418)
        /\ \E i \in AnswersTo(j) :
              /\ written[i].statusCode = 418
              /\ written[i].body.value.message = "teapot"

-----------------------------------------------------------------------------
(* Order of the middleware *)

\* C27: middleware are invoked in list order; a middleware after the first
\* is invoked by a call next() with no argument that the middleware before it
\* made; and no middleware (the default one included) is invoked once next
\* was called with an error.
C27_InOrderAfterNext ==
    \A k \in DOMAIN invoked :
        /\ invoked[k].idx = k - 1
        /\ k > 1 =>
              /\ invoked[k].after \in DOMAIN nextCalls
              /\ nextCalls[invoked[k].after].by = k - 1
              /\ nextCalls[invoked[k].after].error = NoError
              /\ \A j \in 1..invoked[k].after : nextCalls[j].error = NoError

-----------------------------------------------------------------------------
(* Fan-out errors *)

OutcomePos(i) == FirstPos(Event("outcome", i))

\* The node whose call reported an error before any other did.
FirstFailed ==
    CHOOSE i \in 1..N :
        /\ TransportFailed(i)
        /\ \A j \in 1..N : TransportFailed(j) => OutcomePos(i) <= OutcomePos(j)

AnswersError(error) ==
    /\ res.statusCode = error.output.statusCode
    /\ res.body.type = "object"
    /\ res.body.value = error.output.payload

\* C33 (as claimed): in fan-out, for every node whose call reported an
\* error, the response written is that error's status and payload, and no
\* per-node array.
C33_FanoutAnswersEachError ==
    (IsFanout /\ Started) =>
        \A i \in 1..N :
            TransportFailed(i) => AnswersError(calls[i].outcome.error)

\* C33 (amended): in fan-out, once a node's call has reported an error, the
\* response written is the status and payload of the error reported first
\* and no per-node array, whatever the outcomes of the other nodes are.
C33_FanoutAnswersFirstError ==
    (IsFanout /\ Started /\ \E i \in 1..N : TransportFailed(i)) =>
        /\ res.ends = 1
        /\ AnswersError(calls[FirstFailed].outcome.error)

\* Node 1 answered 200 and node 2 reported a timeout: the answer is the 504.
C33_Witness ==
    /\ IsFanout /\ Started /\ N = 2
    /\ Done200(1)
    /\ TransportFailed(2)
    /\ OutcomePos(1) < OutcomePos(2)
    /\ res.statusCode = 504
    /\ res.body.type = "object"

-----------------------------------------------------------------------------
(* One response per invocation *)

\* C35: an executor invocation writes the response head at most once and ends
\* the response at most once, in whatever order the downstream calls
\* complete; in fan-out an outcome that arrives after the response was written
\* causes no second write.
C35_AtMostOneWrite ==
    /\ res.headWrites <= 1
    /\ res.ends <= 1

\* Both calls of a fan-out reported an error, the second after the response
\* was written.
C35_Witness ==
    /\ IsFanout /\ Started /\ N = 2
    /\ TransportFailed(1)
    /\ TransportFailed(2)
    /\ calls[1].outcome # calls[2].outcome
    /\ res.headWrites = 1
    /\ res.ends = 1

-----------------------------------------------------------------------------
(* The inbound request after getNormalizedHeaders *)

\* C38: after the forwarded headers were computed, the inbound request still
\* has its host and x-forwarded-proto headers, and the base URL of the HTTP
\* client starts with the inbound protocol and host.
C38_SourceHeadersKept ==
    Started =>
        /\ req \in Requests
        /\ "host" \in DOMAIN req.headers
        /\ LET prefix == HeaderOr(req.headers, "x-forwarded-proto", "https")
                            \o "://" \o req.headers["host"] \o "/"
           IN /\ Len(wreck.baseUrl) >= Len(prefix)
              /\ SubSeq(wreck.baseUrl, 1, Len(prefix)) = prefix
        /\ \A i \in 1..N :
              calls[i].state # "pending" =>
                  /\ "host" \notin DOMAIN calls[i].request.options.headers
                  /\ "x-forwarded-proto" \notin DOMAIN calls[i].request.options.headers

\* A fan-out run on a request with x-forwarded-proto http: the calls were
\* sent without it and the base URL is the http one.
C38_Witness ==
    /\ IsFanout /\ Started /\ N >= 1
    /\ calls[1].state # "pending"
    /\ "x-forwarded-proto" \in DOMAIN req.headers
    /\ req.headers["x-forwarded-proto"] = "http"
    /\ SubSeq(wreck.baseUrl, 1, 18) = "http://wt.example/"

-----------------------------------------------------------------------------
(* The cron authentication middleware *)

\* The context has the token "s3" or "other" and the Authorization header of
\* the request carries it as bearer token.
MayPassCron ==
    LET ctx == req.webtaskContext
    IN /\ "token" \in DOMAIN ctx
       /\ "authorization" \in DOMAIN req.headers
       /\ \/ ctx.token = "s3" /\ req.headers["authorization"] \in BearerS3
          \/ ctx.token = "other" /\ req.headers["authorization"] = "Bearer other"

\* C31: every invocation of the cron authentication middleware calls next
\* once: without error when the context has a token and the Authorization
\* header carries a bearer token equal to it, and in every other case (no
\* header, no bearer header, no token, another token) with an Error whose
\* statusCode is 403.
C31_CronPassesOnlyWithToken ==
    \A k \in DOMAIN invoked :
        invoked[k].fn = "authenticateCron" =>
            /\ Len(CallsBy(k)) = 1
            /\ IF MayPassCron
               THEN CallsBy(k)[1].error = NoError
               ELSE /\ CallsBy(k)[1].error # NoError
                    /\ CallsBy(k)[1].error.isError
                    /\ CallsBy(k)[1].error.statusCode = 403

\* A bearer token equal to the context token, the scheme in capitals and
\* spaces around: the request went on to the default middleware.
C31_Witness ==
    /\ Len(invoked) = 2
    /\ invoked[1].fn = "authenticateCron"
    /\ invoked[2].fn = "defaultMiddleware"
    /\ "token" \in DOMAIN req.webtaskContext
    /\ req.webtaskContext.token = "s3"
    /\ req.headers = ("authorization" :> "  BEARER s3 ")
    /\ nextCalls = <<[by |-> 1, error |-> NoError]>>

\* No token in the context and a bearer header: answered 403.
C31_WitnessRejected ==
    /\ Len(invoked) = 1
    /\ invoked[1].fn = "authenticateCron"
    /\ "token" \notin DOMAIN req.webtaskContext
    /\ req.headers = ("authorization" :> "Bearer s3")
    /\ res.statusCode = 403

-----------------------------------------------------------------------------
(* Middleware spec strings *)

\* The spec string has one of the forms module, @scope/module, module/export,
\* @scope/module/export, or an export form followed by `()`.
WellFormed(parts) ==
    /\ parts.module # ""
    /\ parts.call = "()" => parts.exportName # ""

\* C32: parseMiddlewareSpecString accepts the forms module, @scope/module,
\* module/export, @scope/module/export and the two export forms followed by
\* `()`: it returns the module name (with its scope), the export name
\* (undefined when there is none) and isFactoryFunction true exactly when the
\* `()` is there. It throws for a bare scope and for a `()` that does not
\* follow an export name.
C32_ParsesSpecForms ==
    resolution # Undefined =>
        IF WellFormed(specParts)
        THEN /\ ~resolution.parsed.threw
             /\ resolution.parsed.moduleName
                    = (IF specParts.scope # ""
                       THEN "@" \o specParts.scope \o "/" ELSE "")
                        \o specParts.module
             /\ resolution.parsed.exportName
                    = (IF specParts.exportName = ""
                       THEN [kind |-> "undefined", value |-> ""]
                       ELSE [kind |-> "string", value |-> specParts.exportName])
             /\ resolution.parsed.isFactoryFunction = (specParts.call = "()")
        ELSE /\ resolution.parsed.threw
             /\ resolution.resolved.threw

\* A scoped module with an exported factory function was parsed and resolved.
C32_Witness ==
    /\ specParts = [scope |-> "s", module |-> "m", exportName |-> "make",
                    call |-> "()"]
    /\ resolution # Undefined
    /\ resolution.parsed.moduleName = "@s/m"
    /\ resolution.parsed.isFactoryFunction
    /\ resolution.resolved.fn = "custom"

\* `@sencha/m()` : a scoped module followed by `()` was rejected.
C32_WitnessThrows ==
    /\ specParts = [scope |-> "sencha", module |-> "m", exportName |-> "",
                    call |-> "()"]
    /\ resolution # Undefined
    /\ resolution.parsed.threw

-----------------------------------------------------------------------------
(* The pipeline over several requests *)

\* C34: over all the requests of a compiled pipeline, those arriving while a
\* compilation is in progress included, the default middleware calls
\* nodejsCompiler at most once.
C34_CompiledAtMostOnce == Len(compiles) <= 1

DefaultPositions ==
    { i \in DOMAIN middlewareSpecs : middlewareSpecs[i].kind = "function" }

\* C36: once the pipeline has served a request, its middleware list holds
\* the default middleware exactly once, as the last element, however many
\* requests it has served: the list does not change from request to request.
C36_ListKeepsItsLength ==
    requestNo >= 1 =>
        /\ Cardinality(DefaultPositions) = 1
        /\ DefaultPositions = {Len(middlewareSpecs)}

\* C37: within a request no position of the middleware list is invoked twice
\* and the pipeline never reads the list past its end, also when a middleware
\* calls next more than once.
C37_IndexStaysInList ==
    /\ ppc # "crashed"
    /\ \A w \in DOMAIN written : written[w].via # "overflow"
    /\ nextMiddlewareIdx <= Len(middlewareSpecs)
    /\ \A k, l \in DOMAIN invoked : invoked[k].idx = invoked[l].idx => k = l

====
